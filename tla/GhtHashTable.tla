---------------------------- MODULE GhtHashTable ----------------------------
(***************************************************************************)
(* common/ght_hash_table.c: the chained hash table under every registry of *)
(* the broker and under hset.c.  An entry is in two lists at once, the     *)
(* chain of its bucket (p_next, p_prev) and the list by age (p_older,      *)
(* p_newer); heuristics, rehashing, bounded buckets and iteration all      *)
(* relink them.                                                            *)
(*                                                                         *)
(* A table never holds two entries with one key, so an entry's key stands  *)
(* for its address.  The hash of a key is its value under an arbitrary     *)
(* function.  Data is never NULL: hset_insert puts fake_val in its place,  *)
(* since ght_next's caller could not tell such an entry from the end.      *)
(* Allocation does not fail, and a bounded bucket's callback leaves the    *)
(* table alone.                                                            *)
(***************************************************************************)
EXTENDS Integers, FiniteSets, SequencesExt

CONSTANTS
  Keys, Data,
  Pairs,         \* the keys and data callers insert or replace
  Hash,          \* Hash[k]: the hash of key k
  Sizes,         \* sizes asked of ght_create and ght_rehash, powers of two
  Limits,        \* bucket limits in use, 0 for none
  NULL,
  FREED          \* an address in memory that was freed, or read from there

(* So many entries fit no memory this program runs in; below it an         *)
(* automatic rehash cannot double i_size, an unsigned int, to 0.           *)
ASSUME KeysAssumption == IsFiniteSet(Keys) /\ Cardinality(Keys) <= 2^30
ASSUME PairsAssumption == Pairs \subseteq Keys \X Data
ASSUME HashAssumption == Hash \in [Keys -> Nat]
ASSUME SizesAssumption == Sizes \subseteq {2^i : i \in 0..30}
ASSUME LimitsAssumption == Limits \subseteq Nat
ASSUME NullAssumption == NULL \notin Keys \cup Data /\ FREED \notin Keys \cup {NULL}

Heuristics == {"none", "transpose", "move_to_front"}

VARIABLES
  table,     \* the ght_hash_table_t and its entries
  flags,     \* i_heuristics, i_automatic_rehash, bucket_limit
  iter,      \* a caller's ght_iterator_t, NoIter when it is not walking
  seen,      \* history: entries this walk was given, while in the table
  owed       \* history: entries there since it began that it was not given

vars == <<table, flags, iter, seen, owed>>

Pointer == Keys \cup {NULL}
NoIter  == [p_entry |-> NULL, p_next |-> NULL]

-----------------------------------------------------------------------------
(* The table as a value t; each operator is a C function. *)

Create(size) ==
  [i_size |-> size, i_items |-> 0,
   pp_entries |-> [b \in 0..size - 1 |-> NULL], p_nr |-> [b \in 0..size - 1 |-> 0],
   p_oldest |-> NULL, p_newest |-> NULL,
   p_data |-> [k \in Keys |-> NULL],
   p_next |-> [k \in Keys |-> NULL], p_prev |-> [k \in Keys |-> NULL],
   p_older |-> [k \in Keys |-> NULL], p_newer |-> [k \in Keys |-> NULL]]

Bucket(t, k) == Hash[k] % t.i_size

(* p->field = v, if p is not NULL *)
Set(field, p, v) == IF p = NULL THEN field ELSE [field EXCEPT ![p] = v]

(* The entries reached from p along a field, as many as there can be. *)
Follow(field, p) ==
  LET path[n \in 0..Cardinality(Keys) + 1] ==
        [q \in Pointer |-> IF n = 0 \/ q = NULL THEN <<>> ELSE <<q>> \o path[n - 1][field[q]]]
  IN path[Cardinality(Keys) + 1][p]

Chain(t, b) == Follow(t.p_next, t.pp_entries[b])
ByAge(t)    == Follow(t.p_newer, t.p_oldest)

(* The entry moves one up in its chain. *)
Transpose(t, b, e) ==
  LET x == t.p_prev[e]
      a == t.p_prev[x]
      n == t.p_next[e]
  IN IF x = NULL THEN t ELSE
     [t EXCEPT
        !.pp_entries[b] = IF a = NULL THEN e ELSE @,
        !.p_next = [Set(@, a, e) EXCEPT ![x] = n, ![e] = x],
        !.p_prev = [Set(@, n, x) EXCEPT ![x] = e, ![e] = a]]

MoveToFrontHalf(t, b, e) ==      \* mutant: the successor keeps its p_prev
  LET first == t.pp_entries[b] IN
  IF e = first THEN t ELSE
     [t EXCEPT
        !.pp_entries[b] = e,
        !.p_next = [@ EXCEPT ![t.p_prev[e]] = t.p_next[e], ![e] = first],
        !.p_prev = [@ EXCEPT ![e] = NULL, ![first] = e]]

MoveToFront(t, b, e) ==
  LET first == t.pp_entries[b] IN
  IF e = first THEN t ELSE
     [t EXCEPT
        !.pp_entries[b] = e,
        !.p_next = [@ EXCEPT ![t.p_prev[e]] = t.p_next[e], ![e] = first],
        !.p_prev = [Set(@, t.p_next[e], t.p_prev[e]) EXCEPT ![e] = NULL, ![first] = e]]

(* Out of both lists. *)
RemoveFromChain(t, b, e) ==
  LET p == t.p_prev[e]
      n == t.p_next[e]
      o == t.p_older[e]
      w == t.p_newer[e]
  IN [t EXCEPT
        !.p_next = Set(@, p, n),
        !.p_prev = Set(@, n, p),
        !.pp_entries[b] = IF p = NULL THEN n ELSE @,
        !.p_newer = Set(@, o, w),
        !.p_older = Set(@, w, o),
        !.p_oldest = IF o = NULL THEN w ELSE @,
        !.p_newest = IF w = NULL THEN o ELSE @]

(* he_finalize: the entry is cleared and freed. *)
Finalize(t, e) ==
  [t EXCEPT !.p_data[e] = NULL, !.p_next[e] = NULL, !.p_prev[e] = NULL,
            !.p_older[e] = NULL, !.p_newer[e] = NULL]

FreeFirstEntry(t, b) ==          \* mutant: p_next is read after the free
  IF Chain(t, b) = <<>> THEN t ELSE Finalize(t, Head(Chain(t, b)))

FreeEntryChain(t, b) == FoldLeft(Finalize, t, Chain(t, b))

(* search_in_bucket finds k. *)
Found(t, k) == k \in Range(Chain(t, Bucket(t, k)))

(* ... and applies the heuristics of a lookup. *)
Search(t, k) ==
  CASE flags.heuristics = "transpose"     -> Transpose(t, Bucket(t, k), k)
    [] flags.heuristics = "move_to_front" -> MoveToFront(t, Bucket(t, k), k)
    [] OTHER -> t

(* The entry that makes room for k in a bucket at its limit, NULL if none. *)
Evicted(t, k, limit) ==
  LET b == Bucket(t, k) IN
  IF limit # 0 /\ t.p_nr[b] >= limit THEN Last(Chain(t, b)) ELSE NULL

(* ght_insert once k is known to be absent: he_create, first in its chain, *)
(* the last of a full bucket out, newest by age.                           *)
Place(t, k, d, limit) ==
  LET b      == Bucket(t, k)
      first  == t.pp_entries[b]
      out    == Evicted(t, k, limit)
      linked == [t EXCEPT !.p_data[k] = d,
                          !.p_next[k] = first,
                          !.p_prev = [Set(@, first, k) EXCEPT ![k] = NULL],
                          !.p_newer[k] = NULL,
                          !.pp_entries[b] = k]
      kept   == IF out = NULL
                  THEN [linked EXCEPT !.p_nr[b] = @ + 1, !.i_items = @ + 1]
                  ELSE Finalize(RemoveFromChain(linked, b, out), out)
  IN [kept EXCEPT !.p_oldest = IF @ = NULL THEN k ELSE @,
                  !.p_older[k] = kept.p_newest,
                  !.p_newer = Set(@, kept.p_newest, k),
                  !.p_newest = k]

(* ght_rehash: every entry, the oldest first, into a new table. *)
InsertAll(t, size, keys) ==
  FoldLeft(LAMBDA u, k : IF Found(u, k) THEN u ELSE Place(u, k, t.p_data[k], 0),
           Create(size), keys)

RehashByBucket(t, size) ==       \* mutant: walks the buckets, not the ages
  InsertAll(t, size, FlattenSeq([i \in 1..t.i_size |-> Chain(t, i - 1)]))

Rehashed(t, size) == InsertAll(t, size, ByAge(t))

-----------------------------------------------------------------------------
NewFlags == [heuristics |-> "none", rehash |-> FALSE, limit |-> 0]

Init ==
  /\ \E size \in Sizes : table = Create(size)
  /\ flags = NewFlags
  /\ iter = NoIter
  /\ seen = {}
  /\ owed = {}

Walking == iter.p_entry # NULL

(* The entries "freed" are, and the keys "gone" are no longer in the table. *)
(* Nothing tells the caller when its iterator leads to a freed entry; of   *)
(* such a walk no history is kept.                                         *)
Freed(freed, gone) ==
  LET left(p) == IF p \in freed THEN FREED ELSE p IN
  /\ iter' = [p_entry |-> left(iter.p_entry), p_next |-> left(iter.p_next)]
  /\ IF iter.p_next \in freed
       THEN seen' = {} /\ owed' = {}
       ELSE seen' = seen \ gone /\ owed' = owed \ gone

GhtSetHeuristics(h) == flags' = [flags EXCEPT !.heuristics = h]
GhtSetRehash(b)     == flags' = [flags EXCEPT !.rehash = b]
GhtSetBoundedBuckets(limit) == flags' = [flags EXCEPT !.limit = limit]

SetFlags ==
  /\ \/ \E h \in Heuristics : GhtSetHeuristics(h)
     \/ \E b \in BOOLEAN : GhtSetRehash(b)
     \/ \E limit \in Limits : GhtSetBoundedBuckets(limit)
  /\ UNCHANGED <<table, iter, seen, owed>>

GhtInsert(k, d) ==
  LET full  == flags.rehash /\ table.i_items > 2 * table.i_size
      t     == IF full THEN Rehashed(table, 2 * table.i_size) ELSE table
      out   == {Evicted(t, k, flags.limit)} \ {NULL}
  IN
  /\ ~Found(table, k)
  /\ table' = Place(t, k, d, flags.limit)
  /\ Freed(IF full THEN Keys ELSE out, out)
  /\ UNCHANGED flags

GhtGet(k) ==
  /\ Found(table, k)
  /\ table' = Search(table, k)
  /\ UNCHANGED <<flags, iter, seen, owed>>

GhtReplace(k, d) ==
  /\ Found(table, k)
  /\ table' = [Search(table, k) EXCEPT !.p_data[k] = d]
  /\ UNCHANGED <<flags, iter, seen, owed>>

(* During a walk the header allows it for the entries walked over only. *)
MayRemove(k) == Found(table, k) /\ (Walking => iter.p_next = FREED \/ k \in seen)

RemoveUncounted(k) ==            \* mutant: i_items is not decremented
  LET b == Bucket(table, k) IN
  /\ MayRemove(k)
  /\ table' = [Finalize(RemoveFromChain(table, b, k), k) EXCEPT !.p_nr[b] = @ - 1]
  /\ Freed({k}, {k})
  /\ UNCHANGED flags

GhtRemove(k) ==
  LET b == Bucket(table, k) IN
  /\ MayRemove(k)
  /\ table' = [Finalize(RemoveFromChain(table, b, k), k)
                 EXCEPT !.i_items = @ - 1, !.p_nr[b] = @ - 1]
  /\ Freed({k}, {k})
  /\ UNCHANGED flags

GhtRehash(size) ==
  /\ table' = Rehashed(table, size)
  /\ Freed(Keys, {})
  /\ UNCHANGED flags

FirstTwice ==                    \* mutant: the iterator leads to where it is
  /\ ~Walking /\ table.p_oldest # NULL
  /\ iter' = [p_entry |-> table.p_oldest, p_next |-> table.p_oldest]
  /\ seen' = {table.p_oldest}
  /\ owed' = Range(ByAge(table)) \ seen'
  /\ UNCHANGED <<table, flags>>

GhtFirst ==
  /\ ~Walking /\ table.p_oldest # NULL
  /\ iter' = [p_entry |-> table.p_oldest, p_next |-> table.p_newer[table.p_oldest]]
  /\ seen' = {table.p_oldest}
  /\ owed' = Range(ByAge(table)) \ seen'
  /\ UNCHANGED <<table, flags>>

StepFromEntry ==                 \* mutant: the link is read one call late
  IF iter.p_entry # FREED /\ table.p_newer[iter.p_entry] # NULL
    THEN [p_entry |-> table.p_newer[iter.p_entry], p_next |-> iter.p_next]
    ELSE NoIter

Step ==
  IF iter.p_next # NULL
    THEN [p_entry |-> iter.p_next, p_next |-> table.p_newer[iter.p_next]]
    ELSE NoIter

GhtNext ==
  /\ Walking /\ iter.p_next # FREED
  /\ iter' = Step
  /\ IF Step = NoIter
       THEN seen' = {} /\ owed' = {}
       ELSE seen' = seen \cup {Step.p_entry} /\ owed' = owed \ {Step.p_entry}
  /\ UNCHANGED <<table, flags>>

(* ght_next reads p_newer and p_data of an entry that was freed: the caller *)
(* goes on with what is there, or gets NULL and takes it for the end.      *)
GhtNextFreed ==
  /\ Walking /\ iter.p_next = FREED
  /\ iter' \in {[p_entry |-> FREED, p_next |-> FREED], NoIter}
  /\ UNCHANGED <<table, flags, seen, owed>>

(* ght_finalize, and the caller's next ght_create; what the first has not  *)
(* freed stays allocated.                                                  *)
GhtFinalize(size) ==
  LET buckets == [i \in 1..table.i_size |-> i - 1] IN
  /\ table' = [Create(size) EXCEPT !.p_data = FoldLeft(FreeEntryChain, table, buckets).p_data]
  /\ flags' = NewFlags
  /\ iter' = NoIter
  /\ seen' = {}
  /\ owed' = {}

Next ==
  \/ SetFlags
  \/ \E p \in Pairs : GhtInsert(p[1], p[2])
  \/ \E k \in Keys : GhtGet(k)
  \/ \E p \in Pairs : GhtReplace(p[1], p[2])
  \/ \E k \in Keys : GhtRemove(k)
  \/ \E size \in Sizes : GhtRehash(size)
  \/ GhtFirst
  \/ GhtNext
  \/ GhtNextFreed
  \/ \E size \in Sizes : GhtFinalize(size)

Spec == Init /\ [][Next]_vars

-----------------------------------------------------------------------------
TypeOK ==
  /\ \E i \in 0..30 : table.i_size = 2^i
  /\ table.i_items \in 0..Cardinality(Keys)
  /\ table.pp_entries \in [0..table.i_size - 1 -> Pointer]
  /\ table.p_nr \in [0..table.i_size - 1 -> 0..Cardinality(Keys)]
  /\ {table.p_oldest, table.p_newest} \subseteq Pointer
  /\ table.p_data \in [Keys -> Data \cup {NULL}]
  /\ \A f \in {table.p_next, table.p_prev, table.p_older, table.p_newer} :
       f \in [Keys -> Pointer]
  /\ flags \in [heuristics : Heuristics, rehash : BOOLEAN, limit : Limits \cup {0}]
  /\ iter \in [p_entry : Pointer \cup {FREED}, p_next : Pointer \cup {FREED}]
  /\ seen \subseteq Keys /\ owed \subseteq Keys

(***************************************************************************)
(* The two lists stay well formed and in step with each other and with the *)
(* counters through every relinking by lookups, evictions, removals and    *)
(* rehashes: each list reads the same backwards, every entry is in the     *)
(* chain its hash selects and in the list by age, and p_nr and i_items     *)
(* count them.                                                             *)
(***************************************************************************)
Linked ==
  LET held == Range(ByAge(table)) IN
  /\ Follow(table.p_older, table.p_newest) = Reverse(ByAge(table))
  /\ Cardinality(held) = table.i_items
  /\ \A b \in 0..table.i_size - 1 :
       LET s == Chain(table, b) IN
       /\ Range(s) = {k \in held : Bucket(table, k) = b}
       /\ Len(s) = table.p_nr[b] /\ Len(s) = Cardinality(Range(s))
       /\ \A i \in 1..Len(s) :
            table.p_prev[s[i]] = IF i = 1 THEN NULL ELSE s[i - 1]

(* Every entry that is allocated is in the table: removals, evictions and  *)
(* ght_finalize free exactly the entries they take out.                    *)
NoLeaks == {k \in Keys : table.p_data[k] # NULL} = Range(ByAge(table))

(***************************************************************************)
(* As long as no insertion and no ght_rehash has freed the entry that the  *)
(* iterator leads to, a walk is given entries of the table, and at its end *)
(* was given every one that was there from its start, whatever was looked  *)
(* up, replaced, removed or inserted meanwhile.  Once it has been freed    *)
(* nothing can be said: GhtNextFreed reads what is left of it.             *)
(***************************************************************************)
WalkComplete ==
  [][GhtNext => IF Walking' THEN iter'.p_entry \in Range(ByAge(table))
                            ELSE owed = {}]_vars

(***************************************************************************)
(* ght_hash_table.h calls the removal of the current entry, and of those   *)
(* walked over, safe: it never frees the entry an iterator leads to,       *)
(* whatever moved, came or went since ght_first.                           *)
(***************************************************************************)
RemovalIsSafe ==
  [][(\E k \in Keys : GhtRemove(k)) => iter'.p_next = iter.p_next]_vars

(* The table implements a map in insertion order. *)
Map == INSTANCE OrderedMap WITH order <-
  LET age == ByAge(table) IN
  [i \in DOMAIN age |-> [key |-> age[i], data |-> table.p_data[age[i]]]]

KeepsOrder == Map!Spec

=============================================================================
