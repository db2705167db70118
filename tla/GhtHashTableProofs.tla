------------------------- MODULE GhtHashTableProofs -------------------------
(***************************************************************************)
(* Proofs about GhtHashTable, for any keys, hashes, sizes and bucket       *)
(* limits: what each C function keeps of the doubly linked lists an entry  *)
(* is in (List) and of the table made of them (Good), what its loops over  *)
(* entries come to, the invariant that follows (IInv) and the five         *)
(* properties of the run.                                                  *)
(***************************************************************************)
EXTENDS GhtHashTable, SequenceTheorems, FiniteSetTheorems, TLAPS

-----------------------------------------------------------------------------
(* Induction, as a fact about sets of naturals. *)

(* A set of naturals that is not empty has a least element. *)
LEMMA Smallest ==
  ASSUME NEW T \in SUBSET Nat, T # {}
  PROVE  \E x \in T : \A y \in T : x <= y
<1> DEFINE R == OpToRel(<, Nat)
<1>1. IsWellFoundedOn(R, Nat)
  BY NatLessThanWellFounded
<1>2. \A x, y \in Nat : x < y => <<x, y>> \in R
  BY DEF OpToRel
<1> HIDE DEF R
<1>3. PICK x \in T : \A y \in T : ~ (<<y, x>> \in R)
  BY <1>1, WFMin
<1>4. \A y \in T : ~ (y < x)
  BY <1>2, <1>3
<1> QED BY <1>4

(* A set with 0 and the successor of each of its elements has every natural. *)
LEMMA Induction ==
  ASSUME NEW S, 0 \in S, \A n \in Nat : n \in S => n + 1 \in S
  PROVE  Nat \subseteq S
<1> DEFINE T == Nat \ S
<1>1. SUFFICES ASSUME T # {} PROVE FALSE
  OBVIOUS
<1>2. PICK x \in T : \A y \in T : x <= y
  BY <1>1, Smallest
<1>3. x # 0 /\ x - 1 \in Nat /\ x - 1 \notin T
  BY <1>2
<1> QED BY <1>3

-----------------------------------------------------------------------------
(***************************************************************************)
(* Doubly linked lists.  List(f, g, p, s): from p the field f leads through*)
(* the entries of s, each once, and g leads back.                          *)
(***************************************************************************)
At(s, i) == IF i \in 1..Len(s) THEN s[i] ELSE NULL

Distinct(s) == \A i, j \in 1..Len(s) : s[i] = s[j] => i = j

List(f, g, p, s) ==
  /\ s \in Seq(Keys) /\ Distinct(s) /\ p = At(s, 1)
  /\ \A i \in 1..Len(s) : f[s[i]] = At(s, i + 1) /\ g[s[i]] = At(s, i - 1)

Links == [Keys -> Pointer]

(* Positions of a list: an entry inside it, NULL outside. *)
LEMMA AtIs ==
  ASSUME NEW s \in Seq(Keys)
  PROVE  /\ Len(s) \in Nat
         /\ \A i \in Int : /\ At(s, i) \in Pointer
                           /\ (At(s, i) = NULL) = (i \notin 1..Len(s))
                           /\ i \in 1..Len(s) => At(s, i) = s[i] /\ s[i] \in Keys
BY NullAssumption DEF At, Pointer

(* A list of distinct entries is as long as the set of them is large. *)
LEMMA DistinctLen ==
  ASSUME NEW s \in Seq(Keys), Distinct(s)
  PROVE  /\ Cardinality(Range(s)) = Len(s) /\ Len(s) <= Cardinality(Keys)
         /\ Range(s) \subseteq Keys /\ IsFiniteSet(Range(s))
<1>1. Len(s) \in Nat /\ DOMAIN s = 1..Len(s) /\ s \in [1..Len(s) -> Keys]
  BY LenProperties
<1>2. Range(s) = {s[i] : i \in 1..Len(s)} /\ Range(s) \subseteq Keys
  BY <1>1 DEF Range
<1>3. s \in [1..Len(s) -> Range(s)]
  BY <1>1, <1>2
<1>4. s \in Bijection(1..Len(s), Range(s))
  <2>1. s \in Injection(1..Len(s), Range(s))
    BY <1>1, <1>3 DEF Injection, IsInjective, Distinct
  <2>2. s \in Surjection(1..Len(s), Range(s))
    BY <1>1, <1>2, <1>3 DEF Surjection
  <2> QED BY <2>1, <2>2 DEF Bijection
<1>5. Cardinality(Range(s)) = Len(s)
  <2>1. ExistsBijection(1..Len(s), Range(s))
    BY <1>4 DEF ExistsBijection
  <2> QED BY <1>1, <2>1, FS_CountingElements
<1>6. IsFiniteSet(Range(s)) /\ Cardinality(Range(s)) <= Cardinality(Keys)
  BY <1>2, KeysAssumption, FS_Subset
<1> QED BY <1>2, <1>5, <1>6

(* Follow's recursive function *)
Paths(field, N, c) ==
  c = [n \in 0..N |->
         [q \in Pointer |-> IF n = 0 \/ q = NULL THEN <<>> ELSE <<q>> \o c[n - 1][field[q]]]]

(* The table of paths of up to N entries exists: Follow's function is one. *)
LEMMA PathsExist ==
  ASSUME NEW field, NEW N \in Nat
  PROVE  \E c : Paths(field, N, c)
<1> DEFINE I == {n \in Nat : \E c : Paths(field, n, c)}
<1>1. 0 \in I
  <2> DEFINE c == [n \in 0..0 |-> [q \in Pointer |-> <<>>]]
  <2>1. Paths(field, 0, c)
    BY DEF Paths
  <2> QED BY <2>1
<1>2. ASSUME NEW n \in Nat, n \in I PROVE n + 1 \in I
  <2>1. PICK c : Paths(field, n, c)
    BY <1>2
  <2> DEFINE Next1(m) == [q \in Pointer |-> IF m = 0 \/ q = NULL THEN <<>>
                                            ELSE <<q>> \o c[m - 1][field[q]]]
             d == [m \in 0..n + 1 |-> Next1(m)]
  <2>2. \A m \in 0..n : c[m] = Next1(m)
    BY <2>1 DEF Paths
  <2>3. \A m \in 0..n + 1 : d[m] = Next1(m)
    OBVIOUS
  <2>4. \A m \in 0..n + 1 : m # 0 => m - 1 \in 0..n /\ m - 1 \in 0..n + 1
    OBVIOUS
  <2>5. \A m \in 0..n + 1 : m # 0 => d[m - 1] = c[m - 1]
    BY <2>2, <2>3, <2>4
  <2>6. \A m \in 0..n + 1 :
          d[m] = [q \in Pointer |-> IF m = 0 \/ q = NULL THEN <<>>
                                    ELSE <<q>> \o d[m - 1][field[q]]]
    BY <2>3, <2>5
  <2>7. d = [m \in 0..n + 1 |-> d[m]]
    OBVIOUS
  <2> HIDE DEF d
  <2>8. Paths(field, n + 1, d)
    BY <2>6, <2>7 DEF Paths
  <2> QED BY <2>8
<1> HIDE DEF I
<1>3. N \in I
  BY <1>1, <1>2, Induction
<1> QED BY <1>3 DEF I

(* Its values, and what Follow takes of them. *)
Followed(field, N, c) ==
  /\ \A p : Follow(field, p) = c[N][p]
  /\ \A n \in 0..N, q \in Pointer :
       c[n][q] = IF n = 0 \/ q = NULL THEN <<>> ELSE <<q>> \o c[n - 1][field[q]]

(* Follow is the path from a pointer, given one entry more than there are. *)
LEMMA FollowPath ==
  ASSUME NEW field, NEW N, N = Cardinality(Keys) + 1
  PROVE  \E c : Followed(field, N, c)
<1>1. N \in Nat
  BY KeysAssumption, FS_CardinalityType
<1> DEFINE c == CHOOSE d : Paths(field, N, d)
<1>2. Paths(field, N, c)
  BY <1>1, PathsExist
<1>3. \A p : Follow(field, p) = c[N][p]
  BY DEF Follow, Paths
<1> HIDE DEF c
<1>4. \A n \in 0..N, q \in Pointer :
        c[n][q] = IF n = 0 \/ q = NULL THEN <<>> ELSE <<q>> \o c[n - 1][field[q]]
  <2> SUFFICES ASSUME NEW n \in 0..N, NEW q \in Pointer
               PROVE  c[n][q] = IF n = 0 \/ q = NULL THEN <<>> ELSE <<q>> \o c[n - 1][field[q]]
    OBVIOUS
  <2>1. c[n] = [r \in Pointer |-> IF n = 0 \/ r = NULL THEN <<>> ELSE <<r>> \o c[n - 1][field[r]]]
    BY <1>2 DEF Paths
  <2> QED BY <2>1
<1> QED BY <1>3, <1>4 DEF Followed

(* Wherever the pointers lead, what is followed are entries. *)
LEMMA FollowType ==
  ASSUME NEW field \in Links, NEW p \in Pointer
  PROVE  Follow(field, p) \in Seq(Keys)
<1>0. PICK N : N = Cardinality(Keys) + 1
  OBVIOUS
<1>1. N \in Nat
  BY <1>0, KeysAssumption, FS_CardinalityType
<1>a. PICK c : Followed(field, N, c)
  BY <1>0, FollowPath
<1>2. /\ \A q : Follow(field, q) = c[N][q]
      /\ \A n \in 0..N, q \in Pointer :
           c[n][q] = IF n = 0 \/ q = NULL THEN <<>> ELSE <<q>> \o c[n - 1][field[q]]
  BY <1>a DEF Followed
<1> DEFINE I == {n \in Nat : n <= N => \A q \in Pointer : c[n][q] \in Seq(Keys)}
<1>b. \A q \in Pointer : c[0][q] = <<>>
  <2>1. 0 \in 0..N
    BY <1>1
  <2> QED BY <1>2, <2>1
<1>3. 0 \in I
  BY <1>b, EmptySeq
<1>4. ASSUME NEW n \in Nat, n \in I PROVE n + 1 \in I
  <2> SUFFICES ASSUME n + 1 <= N, NEW q \in Pointer PROVE c[n + 1][q] \in Seq(Keys)
    OBVIOUS
  <2>1. n + 1 \in 0..N /\ n \in 0..N /\ n + 1 - 1 = n
    BY <1>1
  <2>2. c[n + 1][q] = IF q = NULL THEN <<>> ELSE <<q>> \o c[n][field[q]]
    BY <1>2, <2>1
  <2>3. CASE q = NULL
    BY <2>2, <2>3
  <2>4. CASE q # NULL
    <3>1. q \in Keys /\ field[q] \in Pointer
      BY <2>4 DEF Links, Pointer
    <3>2. c[n][field[q]] \in Seq(Keys) /\ <<q>> \in Seq(Keys)
      BY <1>4, <2>1, <3>1
    <3> QED BY <2>2, <2>4, <3>2, ConcatProperties
  <2> QED BY <2>3, <2>4
<1> HIDE DEF I
<1>5. N \in I
  BY <1>1, <1>3, <1>4, Induction
<1> QED BY <1>1, <1>2, <1>5 DEF I

(* Forward: what is followed from the first entry of a list is the list. *)
LEMMA FollowIs ==
  ASSUME NEW f \in Links, NEW s \in Seq(Keys), Distinct(s),
         \A i \in 1..Len(s) : f[s[i]] = At(s, i + 1)
  PROVE  Follow(f, At(s, 1)) = s
<1>0. PICK N : N = Cardinality(Keys) + 1
  OBVIOUS
<1>1. N \in Nat /\ Len(s) \in Nat /\ Len(s) <= N
  BY <1>0, KeysAssumption, FS_CardinalityType, DistinctLen, AtIs
<1>a. PICK c : Followed(f, N, c)
  BY <1>0, FollowPath
<1>2. /\ \A q : Follow(f, q) = c[N][q]
      /\ \A n \in 0..N, q \in Pointer :
           c[n][q] = IF n = 0 \/ q = NULL THEN <<>> ELSE <<q>> \o c[n - 1][f[q]]
  BY <1>a DEF Followed
<1> DEFINE Q(n) == \A i \in 1..Len(s) + 1 :
                     n >= Len(s) - i + 1 => c[n][At(s, i)] = SubSeq(s, i, Len(s))
           I == {n \in Nat : n <= N => Q(n)}
<1>3. 0 \in I
  <2> SUFFICES ASSUME NEW i \in 1..Len(s) + 1, 0 >= Len(s) - i + 1
               PROVE  c[0][At(s, i)] = SubSeq(s, i, Len(s))
    OBVIOUS
  <2>1. i = Len(s) + 1
    BY <1>1
  <2>2. At(s, i) \in Pointer
    BY <2>1, AtIs
  <2>3. c[0][At(s, i)] = <<>>
    <3>1. 0 \in 0..N
      BY <1>1
    <3> QED BY <1>2, <2>2, <3>1
  <2>4. SubSeq(s, i, Len(s)) = <<>>
    BY <1>1, <2>1, SubSeqEmpty
  <2> QED BY <2>3, <2>4
<1>4. ASSUME NEW n \in Nat, n \in I PROVE n + 1 \in I
  <2> SUFFICES ASSUME n + 1 <= N, NEW i \in 1..Len(s) + 1, n + 1 >= Len(s) - i + 1
               PROVE  c[n + 1][At(s, i)] = SubSeq(s, i, Len(s))
    OBVIOUS
  <2>1. n + 1 \in 0..N /\ n + 1 - 1 = n /\ n <= N
    BY <1>1
  <2>2. At(s, i) \in Pointer
    BY <1>1, AtIs
  <2>3. c[n + 1][At(s, i)] = IF At(s, i) = NULL THEN <<>> ELSE <<At(s, i)>> \o c[n][f[At(s, i)]]
    BY <1>2, <2>1, <2>2
  <2>4. CASE i = Len(s) + 1
    <3>1. At(s, i) = NULL
      BY <1>1, <2>4, AtIs
    <3>2. SubSeq(s, i, Len(s)) = <<>>
      BY <1>1, <2>4, SubSeqEmpty
    <3> QED BY <2>3, <3>1, <3>2
  <2>5. CASE i \in 1..Len(s)
    <3>1. At(s, i) = s[i] /\ At(s, i) # NULL /\ f[s[i]] = At(s, i + 1)
      BY <1>1, <2>5, AtIs
    <3>2. i + 1 \in 1..Len(s) + 1 /\ n >= Len(s) - (i + 1) + 1
      BY <1>1, <2>5
    <3>3. c[n][At(s, i + 1)] = SubSeq(s, i + 1, Len(s))
      BY <1>4, <2>1, <3>2
    <3>4. SubSeq(s, i, Len(s)) = <<s[i]>> \o SubSeq(s, i + 1, Len(s))
      <4>1. Len(s) \in i..Len(s)
        BY <1>1, <2>5
      <4> QED BY <2>5, <4>1, SubSeqRecursiveFirst
    <3> QED BY <2>3, <3>1, <3>3, <3>4
  <2> QED BY <1>1, <2>4, <2>5
<1> HIDE DEF I
<1>5. N \in I
  BY <1>1, <1>3, <1>4, Induction
<1>6. 1 \in 1..Len(s) + 1 /\ N >= Len(s) - 1 + 1
  BY <1>1
<1>7. c[N][At(s, 1)] = SubSeq(s, 1, Len(s))
  BY <1>5, <1>6 DEF I
<1> QED BY <1>2, <1>7, SubSeqFull

(* What Follow finds of a list is the list ... *)
LEMMA ListFollow ==
  ASSUME NEW f \in Links, NEW g \in Links, NEW p, NEW s, List(f, g, p, s)
  PROVE  Follow(f, p) = s
BY FollowIs DEF List

(* ... and from its end, along the other links, the list reversed. *)
LEMMA ListBack ==
  ASSUME NEW f \in Links, NEW g \in Links, NEW p, NEW s, List(f, g, p, s)
  PROVE  Follow(g, At(s, Len(s))) = Reverse(s)
<1> DEFINE r == Reverse(s)
<1>1. s \in Seq(Keys) /\ Distinct(s) /\ Len(s) \in Nat
  BY AtIs DEF List
<1>2. r \in Seq(Keys) /\ Len(r) = Len(s) /\ \A i \in 1..Len(s) : r[i] = s[Len(s) - i + 1]
  BY <1>1 DEF Reverse
<1>3. \A i \in 1..Len(s) : Len(s) - i + 1 \in 1..Len(s)
  BY <1>1
<1> HIDE DEF r
<1>4. Distinct(r)
  <2> SUFFICES ASSUME NEW i \in 1..Len(s), NEW j \in 1..Len(s), r[i] = r[j] PROVE i = j
    BY <1>2 DEF Distinct
  <2>1. Len(s) - i + 1 = Len(s) - j + 1
    BY <1>1, <1>2, <1>3 DEF Distinct
  <2> QED BY <1>1, <2>1
<1>5. \A i \in Int : At(r, i) = At(s, Len(s) - i + 1)
  BY <1>1, <1>2, <1>3 DEF At
<1>6. \A i \in 1..Len(r) : g[r[i]] = At(r, i + 1)
  <2> SUFFICES ASSUME NEW i \in 1..Len(s) PROVE g[r[i]] = At(r, i + 1)
    BY <1>2
  <2>1. PICK j \in 1..Len(s) : j = Len(s) - i + 1
    BY <1>3
  <2>2. r[i] = s[j] /\ g[s[j]] = At(s, j - 1)
    BY <1>2, <2>1 DEF List
  <2>3. At(r, i + 1) = At(s, Len(s) - (i + 1) + 1)
    BY <1>5
  <2>4. Len(s) - (i + 1) + 1 = j - 1
    BY <1>1, <2>1
  <2> QED BY <2>2, <2>3, <2>4
<1>7. At(r, 1) = At(s, Len(s))
  <2>1. Len(s) - 1 + 1 = Len(s)
    BY <1>1
  <2> QED BY <1>5, <2>1
<1>8. Follow(g, At(r, 1)) = r
  BY <1>2, <1>4, <1>6, FollowIs
<1> QED BY <1>7, <1>8 DEF r

(* What lists give to the proofs of their operations. *)
LEMMA ListIs ==
  ASSUME NEW f, NEW g, NEW p, NEW s, List(f, g, p, s)
  PROVE  /\ s \in Seq(Keys) /\ Len(s) \in Nat /\ DOMAIN s = 1..Len(s) /\ p = At(s, 1)
         /\ \A i \in 1..Len(s) : /\ s[i] \in Keys /\ s[i] # NULL /\ At(s, i) = s[i]
                                 /\ f[s[i]] = At(s, i + 1) /\ g[s[i]] = At(s, i - 1)
         /\ \A i, j \in 1..Len(s) : s[i] = s[j] => i = j
         /\ \A i \in Int : i \notin 1..Len(s) => At(s, i) = NULL
         /\ Range(s) = {s[i] : i \in 1..Len(s)} /\ Range(s) \subseteq Keys
<1>1. /\ s \in Seq(Keys) /\ Distinct(s) /\ p = At(s, 1)
      /\ \A i \in 1..Len(s) : f[s[i]] = At(s, i + 1) /\ g[s[i]] = At(s, i - 1)
  BY DEF List
<1>2. Len(s) \in Nat /\ DOMAIN s = 1..Len(s)
  BY <1>1, LenProperties
<1>3. \A i \in 1..Len(s) : s[i] \in Keys /\ s[i] # NULL /\ At(s, i) = s[i]
  BY <1>1, NullAssumption DEF At
<1>4. \A i \in Int : i \notin 1..Len(s) => At(s, i) = NULL
  BY DEF At
<1>5. Range(s) = {s[i] : i \in 1..Len(s)}
  BY <1>2 DEF Range
<1>6. Range(s) \subseteq Keys
  BY <1>3, <1>5
<1> QED BY <1>1, <1>2, <1>3, <1>4, <1>5, <1>6 DEF Distinct

(* An entry is at one position of a list. *)
LEMMA ListAt ==
  ASSUME NEW f, NEW g, NEW p, NEW s, List(f, g, p, s), NEW m \in 1..Len(s), NEW v \in Int
  PROVE  s[m] = At(s, v) <=> m = v
<1>1. s \in Seq(Keys) /\ s[m] # NULL /\ \A i \in 1..Len(s) : s[m] = s[i] => m = i
  BY ListIs
<1>2. /\ (At(s, v) = NULL) = (v \notin 1..Len(s))
      /\ v \in 1..Len(s) => At(s, v) = s[v]
  BY <1>1, AtIs
<1>3. CASE v \in 1..Len(s)
  <2>1. At(s, v) = s[v] /\ (s[m] = s[v] => m = v)
    BY <1>1, <1>2, <1>3
  <2> QED BY <2>1
<1>4. CASE v \notin 1..Len(s)
  <2>1. At(s, v) = NULL /\ m # v
    BY <1>2, <1>4
  <2> QED BY <1>1, <2>1
<1> QED BY <1>3, <1>4

(* The entries of a list are those at its positions. *)
LEMMA RangeIs ==
  ASSUME NEW s \in Seq(Keys)
  PROVE  /\ Range(s) \subseteq Keys /\ NULL \notin Range(s)
         /\ \A i \in 1..Len(s) : s[i] \in Range(s)
         /\ \A x \in Range(s) : \E i \in 1..Len(s) : s[i] = x
<1>1. Len(s) \in Nat /\ DOMAIN s = 1..Len(s) /\ \A i \in 1..Len(s) : s[i] \in Keys
  BY LenProperties
<1>2. Range(s) = {s[i] : i \in 1..Len(s)}
  BY <1>1 DEF Range
<1> QED BY <1>1, <1>2, NullAssumption

(* A sequence without its j-th element. *)
LEMMA RemoveAtIs ==
  ASSUME NEW S, NEW s \in Seq(S), NEW j \in 1..Len(s)
  PROVE  /\ RemoveAt(s, j) \in Seq(S) /\ Len(RemoveAt(s, j)) = Len(s) - 1
         /\ \A i \in 1..Len(s) - 1 : RemoveAt(s, j)[i] = IF i < j THEN s[i] ELSE s[i + 1]
<1>1. Len(s) \in Nat /\ \A i \in 1..Len(s) : s[i] \in S
  BY LenProperties
<1> DEFINE a == SubSeq(s, 1, j - 1)
           b == SubSeq(s, j + 1, Len(s))
<1>2. a \in Seq(S) /\ Len(a) = j - 1 /\ \A i \in 1..j - 1 : a[i] = s[i]
  <2>1. \A i \in 1..j - 1 : s[i] \in S
    BY <1>1
  <2>2. /\ a \in Seq(S) /\ Len(a) = IF 1 <= j - 1 THEN (j - 1) - 1 + 1 ELSE 0
        /\ \A i \in 1..(j - 1) - 1 + 1 : a[i] = s[1 + i - 1]
    BY <1>1, <2>1, SubSeqProperties
  <2> QED BY <1>1, <2>2
<1>3. b \in Seq(S) /\ Len(b) = Len(s) - j /\ \A i \in 1..Len(s) - j : b[i] = s[j + i]
  <2>1. \A i \in j + 1..Len(s) : s[i] \in S
    BY <1>1
  <2>2. /\ b \in Seq(S) /\ Len(b) = IF j + 1 <= Len(s) THEN Len(s) - (j + 1) + 1 ELSE 0
        /\ \A i \in 1..Len(s) - (j + 1) + 1 : b[i] = s[j + 1 + i - 1]
    BY <1>1, <2>1, SubSeqProperties
  <2> QED BY <1>1, <2>2
<1>4. RemoveAt(s, j) = a \o b
  BY DEF RemoveAt
<1> HIDE DEF a, b
<1>5. /\ a \o b \in Seq(S) /\ Len(a \o b) = Len(a) + Len(b)
      /\ \A i \in 1..Len(a) + Len(b) : (a \o b)[i] = IF i <= Len(a) THEN a[i] ELSE b[i - Len(a)]
  BY <1>2, <1>3, ConcatProperties
<1>6. Len(a) + Len(b) = Len(s) - 1
  BY <1>1, <1>2, <1>3
<1>7. ASSUME NEW i \in 1..Len(s) - 1
      PROVE  (a \o b)[i] = IF i < j THEN s[i] ELSE s[i + 1]
  <2>1. CASE i < j
    <3>1. i \in 1..j - 1
      BY <2>1
    <3> QED BY <1>2, <1>5, <1>6, <2>1, <3>1
  <2>2. CASE ~(i < j)
    <3>1. i - Len(a) \in 1..Len(s) - j /\ j + (i - Len(a)) = i + 1 /\ ~(i <= Len(a))
      BY <1>1, <1>2, <2>2
    <3>2. b[i - Len(a)] = s[i + 1]
      BY <1>3, <3>1
    <3> QED BY <1>5, <1>6, <2>2, <3>1, <3>2
  <2> QED BY <2>1, <2>2
<1> QED BY <1>4, <1>5, <1>6, <1>7

(* ... of entries, each once. *)
LEMMA RemoveAtDistinct ==
  ASSUME NEW s \in Seq(Keys), Distinct(s), NEW j \in 1..Len(s)
  PROVE  /\ Distinct(RemoveAt(s, j)) /\ Range(RemoveAt(s, j)) = Range(s) \ {s[j]}
         /\ \A i \in Int : At(RemoveAt(s, j), i) = IF i < j THEN At(s, i) ELSE At(s, i + 1)
<1> DEFINE r == RemoveAt(s, j)
<1>1. Len(s) \in Nat
  BY AtIs
<1>2. /\ r \in Seq(Keys) /\ Len(r) = Len(s) - 1
      /\ \A i \in 1..Len(s) - 1 : r[i] = IF i < j THEN s[i] ELSE s[i + 1]
  BY RemoveAtIs
<1> HIDE DEF r
<1>3. ASSUME NEW i \in Int PROVE At(r, i) = IF i < j THEN At(s, i) ELSE At(s, i + 1)
  <2>1. CASE i \in 1..Len(s) - 1
    <3>1. i \in 1..Len(s) /\ i + 1 \in 1..Len(s)
      BY <1>1, <2>1
    <3> QED BY <1>2, <2>1, <3>1 DEF At
  <2>2. CASE i \notin 1..Len(s) - 1
    <3>1. /\ i < j => i \notin 1..Len(s)
          /\ ~(i < j) => i + 1 \notin 1..Len(s)
      BY <1>1, <2>2
    <3> QED BY <1>2, <2>2, <3>1 DEF At
  <2> QED BY <2>1, <2>2
<1>4. \A x, y \in 1..Len(s) : s[x] = s[y] => x = y
  BY DEF Distinct
<1>5. Distinct(r)
  <2> SUFFICES ASSUME NEW x \in 1..Len(s) - 1, NEW y \in 1..Len(s) - 1, r[x] = r[y]
               PROVE  x = y
    BY <1>2 DEF Distinct
  <2>1. PICK v \in 1..Len(s) : v = IF x < j THEN x ELSE x + 1
    BY <1>1
  <2>2. PICK w \in 1..Len(s) : w = IF y < j THEN y ELSE y + 1
    BY <1>1
  <2>3. r[x] = s[v] /\ r[y] = s[w]
    BY <1>2, <2>1, <2>2
  <2>4. v = w
    BY <1>4, <2>3
  <2> QED BY <2>1, <2>2, <2>4
<1>6. Range(r) = Range(s) \ {s[j]}
  <2>1. ASSUME NEW x \in Range(r) PROVE x \in Range(s) \ {s[j]}
    <3>1. PICK i \in 1..Len(s) - 1 : r[i] = x
      BY <1>2, <2>1, RangeIs
    <3>2. i \in 1..Len(s) /\ i + 1 \in 1..Len(s)
      BY <1>1
    <3>3. PICK m \in 1..Len(s) : m # j /\ s[m] = x
      BY <1>2, <3>1, <3>2
    <3> QED BY <1>4, <3>3, RangeIs
  <2>2. ASSUME NEW x \in Range(s), x # s[j] PROVE x \in Range(r)
    <3>1. PICK m \in 1..Len(s) : s[m] = x
      BY RangeIs
    <3>2. m # j
      BY <2>2, <3>1
    <3>3. CASE m < j
      <4>1. m \in 1..Len(s) - 1
        BY <1>1, <3>3
      <4>2. r[m] = x
        BY <1>2, <3>1, <3>3, <4>1
      <4> QED BY <1>2, <4>1, <4>2, RangeIs
    <3>4. CASE ~(m < j)
      <4>1. m - 1 \in 1..Len(s) - 1 /\ m - 1 + 1 = m /\ ~(m - 1 < j)
        BY <1>1, <3>2, <3>4
      <4>2. r[m - 1] = x
        BY <1>2, <3>1, <4>1
      <4> QED BY <1>2, <4>1, <4>2, RangeIs
    <3> QED BY <3>3, <3>4
  <2> QED BY <2>1, <2>2
<1> QED BY <1>3, <1>5, <1>6 DEF r

(* Links that no entry of a list owns do not matter to it. *)
LEMMA ListFrame ==
  ASSUME NEW f, NEW g, NEW p, NEW s, List(f, g, p, s), NEW f2, NEW g2,
         \A x \in Range(s) : f2[x] = f[x] /\ g2[x] = g[x]
  PROVE  List(f2, g2, p, s)
<1>1. s \in Seq(Keys)
  BY DEF List
<1>2. \A i \in 1..Len(s) : s[i] \in Range(s)
  BY <1>1, RangeIs
<1> QED BY <1>2 DEF List

(* An assignment through a pointer, which does nothing when it is NULL. *)
LEMMA SetIs ==
  ASSUME NEW f \in Links, NEW p \in Pointer, NEW v \in Pointer
  PROVE  /\ Set(f, p, v) \in Links
         /\ \A x \in Keys : Set(f, p, v)[x] = IF x = p THEN v ELSE f[x]
BY NullAssumption DEF Set, Links, Pointer

(* A new first entry. *)
LEMMA ListPrepend ==
  ASSUME NEW f \in Links, NEW g \in Links, NEW p, NEW s, List(f, g, p, s),
         NEW k \in Keys, k \notin Range(s), NEW f2 \in Links, NEW g2 \in Links,
         \A x \in Keys : f2[x] = IF x = k THEN p ELSE f[x],
         \A x \in Keys : g2[x] = IF x = k THEN NULL ELSE IF x = p THEN k ELSE g[x]
  PROVE  /\ List(f2, g2, k, <<k>> \o s) /\ Len(<<k>> \o s) = Len(s) + 1
         /\ Range(<<k>> \o s) = Range(s) \cup {k}
         /\ \A i \in Int : At(<<k>> \o s, i) = IF i = 1 THEN k ELSE At(s, i - 1)
<1>1. /\ s \in Seq(Keys) /\ Len(s) \in Nat /\ p = At(s, 1)
      /\ \A i \in 1..Len(s) : /\ s[i] \in Keys /\ s[i] # NULL /\ At(s, i) = s[i]
                              /\ f[s[i]] = At(s, i + 1) /\ g[s[i]] = At(s, i - 1)
      /\ \A i, j \in 1..Len(s) : s[i] = s[j] => i = j
      /\ \A i \in Int : i \notin 1..Len(s) => At(s, i) = NULL
  BY ListIs
<1>2. \A i \in 1..Len(s) : s[i] # k
  BY <1>1, RangeIs
<1>3. /\ <<k>> \o s \in Seq(Keys) /\ Len(<<k>> \o s) = Len(s) + 1
      /\ \A i \in 1..Len(s) + 1 : (<<k>> \o s)[i] = IF i = 1 THEN k ELSE s[i - 1]
  <2> DEFINE o == <<k>>
  <2>1. o \in Seq(Keys) /\ Len(o) = 1 /\ o[1] = k
    OBVIOUS
  <2> HIDE DEF o
  <2>0. s \in Seq(Keys)
    BY <1>1
  <2>a. /\ o \o s \in Seq(Keys) /\ Len(o \o s) = Len(o) + Len(s)
        /\ \A i \in 1..Len(o) + Len(s) : (o \o s)[i] = IF i <= Len(o) THEN o[i] ELSE s[i - Len(o)]
    BY ONLY <2>0, <2>1, ConcatProperties
  <2>2. /\ o \o s \in Seq(Keys) /\ Len(o \o s) = 1 + Len(s)
        /\ \A i \in 1..1 + Len(s) : (o \o s)[i] = IF i <= 1 THEN o[i] ELSE s[i - 1]
    BY <2>1, <2>a
  <2>3. \A i \in 1..Len(s) + 1 : i \in 1..1 + Len(s) /\ (i <= 1 <=> i = 1)
    BY <1>1
  <2>4. \A i \in 1..Len(s) + 1 : (o \o s)[i] = IF i = 1 THEN k ELSE s[i - 1]
    BY <2>1, <2>2, <2>3
  <2>5. Len(o \o s) = Len(s) + 1
    BY <1>1, <2>2
  <2> QED BY <2>2, <2>4, <2>5 DEF o
<1> DEFINE u == <<k>> \o s
<1> HIDE DEF u
<1>4. /\ u \in Seq(Keys) /\ Len(u) = Len(s) + 1
      /\ \A i \in 1..Len(s) + 1 : u[i] = IF i = 1 THEN k ELSE s[i - 1]
  BY <1>3 DEF u
<1>5. ASSUME NEW i \in Int PROVE At(u, i) = IF i = 1 THEN k ELSE At(s, i - 1)
  BY <1>1, <1>4 DEF At
<1>6. \A i \in 1..Len(s) + 1 : i = 1 \/ i - 1 \in 1..Len(s)
  BY <1>1
<1>7. Distinct(u)
  <2> SUFFICES ASSUME NEW i \in 1..Len(s) + 1, NEW j \in 1..Len(s) + 1, u[i] = u[j]
               PROVE  i = j
    BY <1>4 DEF Distinct
  <2>1. i = 1 <=> j = 1
    BY <1>2, <1>4, <1>6
  <2>2. CASE i # 1
    <3>1. i - 1 \in 1..Len(s) /\ j - 1 \in 1..Len(s) /\ s[i - 1] = s[j - 1]
      BY <1>4, <1>6, <2>1, <2>2
    <3>2. i - 1 = j - 1
      BY <1>1, <3>1
    <3> QED BY <3>2
  <2> QED BY <2>1, <2>2
<1>8. ASSUME NEW i \in 1..Len(s) + 1
      PROVE  f2[u[i]] = At(u, i + 1) /\ g2[u[i]] = At(u, i - 1)
  <2>1. CASE i = 1
    <3>1. u[i] = k /\ f2[k] = p /\ g2[k] = NULL
      BY <1>4, <2>1
    <3>2. At(u, i + 1) = At(s, 1)
      BY <1>5, <2>1
    <3>3. At(u, i - 1) = NULL
      <4>1. 0 - 1 \notin 1..Len(s)
        OBVIOUS
      <4> QED BY <1>1, <1>5, <2>1, <4>1
    <3> QED BY <1>1, <3>1, <3>2, <3>3
  <2>2. CASE i # 1
    <3>1. PICK m \in 1..Len(s) : m = i - 1
      BY <1>6, <2>2
    <3>2. u[i] = s[m] /\ s[m] \in Keys /\ s[m] # k
      BY <1>1, <1>2, <1>4, <2>2, <3>1
    <3>3. f2[s[m]] = At(s, m + 1)
      BY <1>1, <3>2
    <3>4. At(u, i + 1) = At(s, m + 1)
      BY <1>5, <2>2, <3>1
    <3>5. g2[s[m]] = IF s[m] = p THEN k ELSE At(s, m - 1)
      BY <1>1, <3>2
    <3>6. s[m] = p <=> m = 1
      BY <1>1
    <3>7. At(u, i - 1) = IF m = 1 THEN k ELSE At(s, m - 1)
      BY <1>5, <2>2, <3>1
    <3> QED BY <3>2, <3>3, <3>4, <3>5, <3>6, <3>7
  <2> QED BY <2>1, <2>2
<1>9. Range(u) = Range(s) \cup {k}
  <2>1. ASSUME NEW x \in Range(u) PROVE x \in Range(s) \cup {k}
    <3>1. PICK i \in 1..Len(u) : u[i] = x
      BY <1>4, RangeIs
    <3>2. i \in 1..Len(s) + 1
      BY <1>4
    <3>3. CASE i = 1
      BY <1>4, <3>1, <3>2, <3>3
    <3>4. CASE i # 1
      <4>1. PICK m \in 1..Len(s) : m = i - 1 /\ u[i] = s[m]
        BY <1>4, <1>6, <3>2, <3>4
      <4>2. s[m] \in Range(s)
        BY <1>1, <4>1, RangeIs
      <4> QED BY <3>1, <4>1, <4>2
    <3> QED BY <3>3, <3>4
  <2>2. k \in Range(u)
    <3>1. 1 \in 1..Len(s) + 1
      BY <1>1
    <3> QED BY <1>4, <3>1, RangeIs
  <2>3. ASSUME NEW x \in Range(s) PROVE x \in Range(u)
    <3>1. PICK i \in 1..Len(s) : s[i] = x
      BY <1>1, RangeIs
    <3>2. i + 1 \in 1..Len(s) + 1 /\ i + 1 # 1 /\ i + 1 - 1 = i
      BY <1>1
    <3>3. u[i + 1] = x
      BY <1>4, <3>1, <3>2
    <3> QED BY <1>4, <3>2, <3>3, RangeIs
  <2> QED BY <2>1, <2>2, <2>3
<1>10. k = At(u, 1)
  BY <1>5
<1>11. List(f2, g2, k, u)
  BY <1>4, <1>7, <1>8, <1>10 DEF List
<1> QED BY <1>4, <1>5, <1>9, <1>11 DEF u

(* A new last entry. *)
LEMMA ListAppend ==
  ASSUME NEW f \in Links, NEW g \in Links, NEW p, NEW s, List(f, g, p, s),
         NEW k \in Keys, k \notin Range(s), NEW f2 \in Links, NEW g2 \in Links,
         NEW z, z = At(s, Len(s)), f[k] = NULL,
         \A x \in Keys : f2[x] = IF x = z THEN k ELSE f[x],
         \A x \in Keys : g2[x] = IF x = k THEN z ELSE g[x]
  PROVE  /\ List(f2, g2, IF p = NULL THEN k ELSE p, Append(s, k))
         /\ Len(Append(s, k)) = Len(s) + 1 /\ At(Append(s, k), Len(s) + 1) = k
         /\ Range(Append(s, k)) = Range(s) \cup {k}
<1>1. /\ s \in Seq(Keys) /\ Len(s) \in Nat /\ p = At(s, 1)
      /\ \A i \in 1..Len(s) : /\ s[i] \in Keys /\ s[i] # NULL /\ At(s, i) = s[i]
                              /\ f[s[i]] = At(s, i + 1) /\ g[s[i]] = At(s, i - 1)
      /\ \A i, j \in 1..Len(s) : s[i] = s[j] => i = j
      /\ \A i \in Int : i \notin 1..Len(s) => At(s, i) = NULL
  BY ListIs
<1>2. \A i \in 1..Len(s) : s[i] # k
  BY <1>1, RangeIs
<1> DEFINE u == Append(s, k)
<1>4. /\ u \in Seq(Keys) /\ Len(u) = Len(s) + 1
      /\ \A i \in 1..Len(s) + 1 : u[i] = IF i = Len(s) + 1 THEN k ELSE s[i]
  <2>1. s \in Seq(Keys)
    BY <1>1
  <2>2. /\ u \in Seq(Keys) /\ Len(u) = Len(s) + 1
        /\ \A i \in 1..Len(s) : u[i] = s[i]
        /\ u[Len(s) + 1] = k
    BY <2>1, AppendProperties
  <2>3. \A i \in 1..Len(s) + 1 : i = Len(s) + 1 \/ i \in 1..Len(s)
    BY <1>1
  <2> QED BY <1>1, <2>2, <2>3
<1> HIDE DEF u
<1>5. ASSUME NEW i \in Int PROVE At(u, i) = IF i = Len(s) + 1 THEN k ELSE At(s, i)
  BY <1>1, <1>4 DEF At
<1>6. \A i \in 1..Len(s) + 1 : i = Len(s) + 1 \/ i \in 1..Len(s)
  BY <1>1
<1>7. Distinct(u)
  <2> SUFFICES ASSUME NEW i \in 1..Len(s) + 1, NEW j \in 1..Len(s) + 1, u[i] = u[j]
               PROVE  i = j
    BY <1>4 DEF Distinct
  <2>1. i = Len(s) + 1 <=> j = Len(s) + 1
    BY <1>2, <1>4, <1>6
  <2>2. CASE i # Len(s) + 1
    <3>1. i \in 1..Len(s) /\ j \in 1..Len(s) /\ s[i] = s[j]
      BY <1>4, <1>6, <2>1, <2>2
    <3> QED BY <1>1, <3>1
  <2> QED BY <2>1, <2>2
<1>8. ASSUME NEW i \in 1..Len(s) + 1
      PROVE  f2[u[i]] = At(u, i + 1) /\ g2[u[i]] = At(u, i - 1)
  <2>1. CASE i = Len(s) + 1
    <3>1. u[i] = k
      BY <1>4, <2>1
    <3>2. k # z
      <4>1. CASE Len(s) = 0
        <5>1. z = NULL
          BY <1>1, <4>1
        <5> QED BY <5>1, NullAssumption
      <4>2. CASE Len(s) # 0
        <5>1. Len(s) \in 1..Len(s)
          BY <1>1, <4>2
        <5> QED BY <1>1, <1>2, <5>1
      <4> QED BY <4>1, <4>2
    <3>3. f2[k] = NULL /\ g2[k] = At(s, Len(s))
      BY <3>2
    <3>4. At(u, i + 1) = NULL
      <4>1. i + 1 \in Int /\ i + 1 \notin 1..Len(s) /\ i + 1 # Len(s) + 1
        BY <1>1, <2>1
      <4> QED BY <1>1, <1>5, <4>1
    <3>5. At(u, i - 1) = At(s, Len(s))
      <4>1. i - 1 = Len(s) /\ Len(s) # Len(s) + 1
        BY <1>1, <2>1
      <4> QED BY <1>1, <1>5, <4>1
    <3> QED BY <3>1, <3>3, <3>4, <3>5
  <2>2. CASE i \in 1..Len(s)
    <3>1. u[i] = s[i] /\ s[i] \in Keys /\ s[i] # k
      BY <1>1, <1>2, <1>4, <2>2
    <3>2. s[i] = z <=> i = Len(s)
      <4>1. Len(s) \in 1..Len(s)
        BY <1>1, <2>2
      <4>2. z = s[Len(s)]
        BY <1>1, <4>1
      <4> QED BY <1>1, <2>2, <4>1, <4>2
    <3>3. f2[s[i]] = IF i = Len(s) THEN k ELSE At(s, i + 1)
      BY <1>1, <2>2, <3>1, <3>2
    <3>4. At(u, i + 1) = IF i = Len(s) THEN k ELSE At(s, i + 1)
      BY <1>1, <1>5
    <3>5. g2[s[i]] = At(s, i - 1)
      BY <1>1, <2>2, <3>1
    <3>6. At(u, i - 1) = At(s, i - 1)
      <4>1. i - 1 # Len(s) + 1 /\ i - 1 \in Int
        BY <1>1, <2>2
      <4> QED BY <1>5, <4>1
    <3> QED BY <3>1, <3>3, <3>4, <3>5, <3>6
  <2> QED BY <1>6, <2>1, <2>2
<1>9. Range(u) = Range(s) \cup {k}
  <2>1. ASSUME NEW x \in Range(u) PROVE x \in Range(s) \cup {k}
    <3>1. PICK i \in 1..Len(u) : u[i] = x
      BY <1>4, RangeIs
    <3>2. i \in 1..Len(s) + 1
      BY <1>4
    <3>3. CASE i = Len(s) + 1
      BY <1>4, <3>1, <3>2, <3>3
    <3>4. CASE i # Len(s) + 1
      <4>1. PICK m \in 1..Len(s) : m = i /\ u[i] = s[m]
        BY <1>4, <1>6, <3>2, <3>4
      <4>2. s[m] \in Range(s)
        BY <1>1, <4>1, RangeIs
      <4> QED BY <3>1, <4>1, <4>2
    <3> QED BY <3>3, <3>4
  <2>2. k \in Range(u)
    <3>1. Len(s) + 1 \in 1..Len(s) + 1
      BY <1>1
    <3> QED BY <1>4, <3>1, RangeIs
  <2>3. ASSUME NEW x \in Range(s) PROVE x \in Range(u)
    <3>1. PICK i \in 1..Len(s) : s[i] = x
      BY <1>1, RangeIs
    <3>2. i \in 1..Len(s) + 1 /\ i # Len(s) + 1
      BY <1>1
    <3>3. u[i] = x
      BY <1>4, <3>1, <3>2
    <3> QED BY <1>4, <3>2, <3>3, RangeIs
  <2> QED BY <2>1, <2>2, <2>3
<1>10. (IF p = NULL THEN k ELSE p) = At(u, 1)
  <2>1. CASE Len(s) = 0
    <3>1. p = NULL /\ At(u, 1) = k
      BY <1>1, <1>5, <2>1
    <3> QED BY <3>1
  <2>2. CASE Len(s) # 0
    <3>1. 1 \in 1..Len(s) /\ 1 # Len(s) + 1
      BY <1>1, <2>2
    <3>2. p # NULL /\ At(u, 1) = p
      BY <1>1, <1>5, <3>1
    <3> QED BY <3>2
  <2> QED BY <2>1, <2>2
<1>11. List(f2, g2, IF p = NULL THEN k ELSE p, u)
  BY <1>4, <1>7, <1>8, <1>10 DEF List
<1>12. At(u, Len(s) + 1) = k
  BY <1>1, <1>5
<1> QED BY <1>4, <1>9, <1>11, <1>12 DEF u

(* The entry e taken out; its own fields do not matter any more. *)
Removing(f, g, e, f2, g2) ==
  \A x \in Keys : x # e => /\ f2[x] = IF x = g[e] THEN f[e] ELSE f[x]
                           /\ g2[x] = IF x = f[e] THEN g[e] ELSE g[x]

(* The j-th entry taken out, the links of its neighbours joined. *)
LEMMA ListRemove ==
  ASSUME NEW f \in Links, NEW g \in Links, NEW p, NEW s, List(f, g, p, s),
         NEW j \in 1..Len(s), NEW e, e = s[j], NEW f2 \in Links, NEW g2 \in Links,
         Removing(f, g, e, f2, g2)
  PROVE  /\ List(f2, g2, IF g[e] = NULL THEN f[e] ELSE p, RemoveAt(s, j))
         /\ At(RemoveAt(s, j), Len(s) - 1) = IF f[e] = NULL THEN g[e] ELSE At(s, Len(s))
<1>1. /\ s \in Seq(Keys) /\ Len(s) \in Nat /\ p = At(s, 1)
      /\ \A i \in 1..Len(s) : /\ s[i] \in Keys /\ s[i] # NULL /\ At(s, i) = s[i]
                              /\ f[s[i]] = At(s, i + 1) /\ g[s[i]] = At(s, i - 1)
      /\ \A i, m \in 1..Len(s) : s[i] = s[m] => i = m
      /\ \A i \in Int : i \notin 1..Len(s) => At(s, i) = NULL
  BY ListIs
<1>2. Distinct(s)
  BY DEF List
<1> DEFINE u == RemoveAt(s, j)
<1>3. /\ u \in Seq(Keys) /\ Len(u) = Len(s) - 1
      /\ \A i \in 1..Len(s) - 1 : u[i] = IF i < j THEN s[i] ELSE s[i + 1]
  <2>1. s \in Seq(Keys)
    BY <1>1
  <2> QED BY <2>1, RemoveAtIs
<1>4. Distinct(u) /\ \A i \in Int : At(u, i) = IF i < j THEN At(s, i) ELSE At(s, i + 1)
  BY <1>1, <1>2, RemoveAtDistinct
<1> HIDE DEF u
<1>5. f[e] = At(s, j + 1) /\ g[e] = At(s, j - 1)
  BY <1>1
(* Which entry of s is e's neighbour. *)
<1>6. ASSUME NEW m \in 1..Len(s)
      PROVE  (s[m] = f[e] <=> m = j + 1) /\ (s[m] = g[e] <=> m = j - 1) /\ (s[m] = e <=> m = j)
  <2>0. ASSUME NEW v \in Int PROVE s[m] = At(s, v) <=> m = v
    BY ListAt
  <2>1. s[m] = At(s, j + 1) <=> m = j + 1
    <3>1. j + 1 \in Int
      OBVIOUS
    <3> QED BY <2>0, <3>1
  <2>2. s[m] = At(s, j - 1) <=> m = j - 1
    <3>1. j - 1 \in Int
      OBVIOUS
    <3> QED BY <2>0, <3>1
  <2> QED BY <1>1, <1>5, <2>1, <2>2
<1>7. ASSUME NEW m \in 1..Len(s), m # j
      PROVE  /\ f2[s[m]] = IF m = j - 1 THEN At(s, m + 2) ELSE At(s, m + 1)
             /\ g2[s[m]] = IF m = j + 1 THEN At(s, m - 2) ELSE At(s, m - 1)
  <2>1. s[m] \in Keys /\ s[m] # e /\ f[s[m]] = At(s, m + 1) /\ g[s[m]] = At(s, m - 1)
    BY <1>1, <1>6, <1>7
  <2>2. m = j - 1 => j + 1 = m + 2
    OBVIOUS
  <2>3. m = j + 1 => j - 1 = m - 2
    OBVIOUS
  <2>4. f2[s[m]] = IF m = j - 1 THEN f[e] ELSE f[s[m]]
    BY <1>6, <2>1 DEF Removing
  <2>5. g2[s[m]] = IF m = j + 1 THEN g[e] ELSE g[s[m]]
    BY <1>6, <2>1 DEF Removing
  <2> QED BY <1>5, <2>1, <2>2, <2>3, <2>4, <2>5
<1>8. ASSUME NEW i \in 1..Len(s) - 1
      PROVE  f2[u[i]] = At(u, i + 1) /\ g2[u[i]] = At(u, i - 1)
  <2>1. CASE i < j
    <3>1. i \in 1..Len(s) /\ i # j /\ i # j + 1
      BY <1>1, <2>1
    <3>2. u[i] = s[i]
      BY <1>3, <2>1
    <3>3. At(u, i + 1) = IF i = j - 1 THEN At(s, i + 2) ELSE At(s, i + 1)
      <4>0. i + 1 \in Int
        OBVIOUS
      <4>1. At(u, i + 1) = IF i + 1 < j THEN At(s, i + 1) ELSE At(s, i + 1 + 1)
        BY <1>4, <4>0
      <4>2. i + 1 + 1 = i + 2 /\ (i + 1 < j <=> i # j - 1)
        BY <2>1
      <4> QED BY <4>1, <4>2
    <3>4. At(u, i - 1) = At(s, i - 1)
      BY <1>4, <2>1
    <3> QED BY <1>7, <3>1, <3>2, <3>3, <3>4
  <2>2. CASE ~(i < j)
    <3>1. PICK m \in 1..Len(s) : m = i + 1
      BY <1>1
    <3>2. u[i] = s[m] /\ m # j /\ m # j - 1
      BY <1>3, <2>2, <3>1
    <3>3. At(u, i + 1) = At(s, m + 1)
      BY <1>4, <2>2, <3>1
    <3>4. At(u, i - 1) = IF m = j + 1 THEN At(s, m - 2) ELSE At(s, m - 1)
      <4>0. i - 1 \in Int
        OBVIOUS
      <4>1. At(u, i - 1) = IF i - 1 < j THEN At(s, i - 1) ELSE At(s, i - 1 + 1)
        BY <1>4, <4>0
      <4>2. i - 1 = m - 2 /\ i - 1 + 1 = m - 1 /\ (i - 1 < j <=> m = j + 1)
        BY <2>2, <3>1
      <4> QED BY <4>1, <4>2
    <3> QED BY <1>7, <3>2, <3>3, <3>4
  <2> QED BY <2>1, <2>2
<1>9. (IF g[e] = NULL THEN f[e] ELSE p) = At(u, 1)
  <2>1. g[e] = NULL <=> j = 1
    <3>1. j = 1 => j - 1 \notin 1..Len(s)
      OBVIOUS
    <3>2. j # 1 => j - 1 \in 1..Len(s)
      BY <1>1
    <3>3. g[e] = At(s, j - 1)
      BY <1>5
    <3>4. (At(s, j - 1) = NULL) = (j - 1 \notin 1..Len(s))
      <4>1. s \in Seq(Keys) /\ j - 1 \in Int
        BY <1>1
      <4> QED BY <4>1, AtIs
    <3> QED BY ONLY <3>1, <3>2, <3>3, <3>4
  <2>2. At(u, 1) = IF 1 < j THEN At(s, 1) ELSE At(s, 1 + 1)
    BY <1>4
  <2>3. 1 < j <=> j # 1
    OBVIOUS
  <2> QED BY <1>1, <1>5, <2>1, <2>2, <2>3
<1>10. At(u, Len(s) - 1) = IF f[e] = NULL THEN g[e] ELSE At(s, Len(s))
  <2>1. f[e] = NULL <=> j = Len(s)
    <3>1. j = Len(s) => j + 1 \notin 1..Len(s)
      BY <1>1
    <3>2. j # Len(s) => j + 1 \in 1..Len(s)
      BY <1>1
    <3> QED BY <1>1, <1>5, <3>1, <3>2
  <2>2. At(u, Len(s) - 1) = IF Len(s) - 1 < j THEN At(s, Len(s) - 1) ELSE At(s, Len(s) - 1 + 1)
    <3>1. Len(s) - 1 \in Int
      BY <1>1
    <3> QED BY <1>4, <3>1
  <2>3. (Len(s) - 1 < j <=> j = Len(s)) /\ Len(s) - 1 + 1 = Len(s)
    BY <1>1
  <2> QED BY <1>1, <1>5, <2>1, <2>2, <2>3
<1>11. List(f2, g2, IF g[e] = NULL THEN f[e] ELSE p, u)
  BY <1>3, <1>4, <1>8, <1>9 DEF List
<1> QED BY <1>10, <1>11 DEF u

(* The entry e moved to the front. *)
LEMMA ListToFront ==
  ASSUME NEW f \in Links, NEW g \in Links, NEW p, NEW s, List(f, g, p, s),
         NEW j \in 1..Len(s), NEW e, e = s[j], e # p, NEW f2 \in Links, NEW g2 \in Links,
         \A x \in Keys : f2[x] = IF x = e THEN p ELSE IF x = g[e] THEN f[e] ELSE f[x],
         \A x \in Keys : g2[x] = IF x = e THEN NULL ELSE IF x = p THEN e
                                 ELSE IF x = f[e] THEN g[e] ELSE g[x]
  PROVE  \E u : List(f2, g2, e, u) /\ Range(u) = Range(s) /\ Len(u) = Len(s)
<1>1. /\ s \in Seq(Keys) /\ Len(s) \in Nat /\ p = At(s, 1)
      /\ \A i \in 1..Len(s) : /\ s[i] \in Keys /\ s[i] # NULL /\ At(s, i) = s[i]
                              /\ f[s[i]] = At(s, i + 1) /\ g[s[i]] = At(s, i - 1)
  BY ListIs
<1>0. s \in Seq(Keys) /\ Distinct(s)
  BY DEF List
<1>2. j # 1 /\ j - 1 \in 1..Len(s) /\ e \in Keys
  BY <1>1
<1>3. g[e] # NULL /\ f[e] \in Pointer /\ g[e] \in Pointer
  BY <1>1, <1>2 DEF Links
<1>4. p \in Pointer
  BY <1>1, AtIs
<1> DEFINE f1 == [x \in Keys |-> IF x = g[e] THEN f[e] ELSE f[x]]
           g1 == [x \in Keys |-> IF x = e THEN NULL ELSE IF x = f[e] THEN g[e] ELSE g[x]]
           r  == RemoveAt(s, j)
<1>5. /\ f1 \in Links /\ \A x \in Keys : f1[x] = IF x = g[e] THEN f[e] ELSE f[x]
      /\ g1 \in Links
      /\ \A x \in Keys : g1[x] = IF x = e THEN NULL ELSE IF x = f[e] THEN g[e] ELSE g[x]
  <2>1. \A x \in Keys : f[x] \in Pointer /\ g[x] \in Pointer
    BY DEF Links
  <2>2. NULL \in Pointer
    BY DEF Pointer
  <2> QED BY <1>3, <2>1, <2>2 DEF Links
<1> HIDE DEF f1, g1, r
<1>6. List(f1, g1, p, r)
  <2>1. List(f1, g1, IF g[e] = NULL THEN f[e] ELSE p, r)
    <3>1. Removing(f, g, e, f1, g1)
      BY <1>5 DEF Removing
    <3> QED BY <1>5, <3>1, ListRemove DEF r
  <2> QED BY <1>3, <2>1
<1>7. Range(r) = Range(s) \ {e} /\ e \in Range(s)
  BY <1>0, RemoveAtDistinct, RangeIs DEF r
<1>8. Len(r) = Len(s) - 1
  BY <1>0, RemoveAtIs DEF r
<1>9. \A x \in Keys : f2[x] = IF x = e THEN p ELSE f1[x]
  BY <1>5
<1>10. \A x \in Keys : g2[x] = IF x = e THEN NULL ELSE IF x = p THEN e ELSE g1[x]
  BY <1>5
<1>11. /\ List(f2, g2, e, <<e>> \o r) /\ Len(<<e>> \o r) = Len(r) + 1
       /\ Range(<<e>> \o r) = Range(r) \cup {e}
  BY <1>2, <1>5, <1>6, <1>7, <1>9, <1>10, ListPrepend
<1>12. Len(r) + 1 = Len(s)
  BY <1>1, <1>8
<1> QED BY <1>7, <1>11, <1>12

(* The entry e and the one before it change places. *)
LEMMA ListSwap ==
  ASSUME NEW f \in Links, NEW g \in Links, NEW p, NEW s, List(f, g, p, s),
         NEW j \in 1..Len(s), NEW e, e = s[j], NEW q, q = g[e], q # NULL,
         NEW f2 \in Links, NEW g2 \in Links,
         \A x \in Keys : f2[x] = IF x = e THEN q ELSE IF x = q THEN f[e]
                                 ELSE IF x = g[q] THEN e ELSE f[x],
         \A x \in Keys : g2[x] = IF x = e THEN g[q] ELSE IF x = q THEN e
                                 ELSE IF x = f[e] THEN q ELSE g[x]
  PROVE  \E u : /\ List(f2, g2, IF g[q] = NULL THEN e ELSE p, u)
                /\ Range(u) = Range(s) /\ Len(u) = Len(s)
<1>1. /\ s \in Seq(Keys) /\ Len(s) \in Nat /\ p = At(s, 1)
      /\ \A i \in 1..Len(s) : /\ s[i] \in Keys /\ s[i] # NULL /\ At(s, i) = s[i]
                              /\ f[s[i]] = At(s, i + 1) /\ g[s[i]] = At(s, i - 1)
      /\ \A i, m \in 1..Len(s) : s[i] = s[m] => i = m
      /\ \A i \in Int : i \notin 1..Len(s) => At(s, i) = NULL
  BY ListIs
<1>0. s \in Seq(Keys)
  BY <1>1
<1>2. PICK h \in 1..Len(s) : h = j - 1
  <2>1. j - 1 \in Int /\ At(s, j - 1) # NULL
    BY <1>1
  <2>2. j - 1 \in 1..Len(s)
    BY <1>1, <2>1
  <2> QED BY <2>2
<1>3. q = s[h]
  BY <1>1, <1>2
<1> DEFINE o(i) == IF i = j THEN h ELSE IF i = h THEN j ELSE i
           u    == [i \in 1..Len(s) |-> s[o(i)]]
<1>4. \A i \in 1..Len(s) : o(i) \in 1..Len(s) /\ o(o(i)) = i
  BY <1>2
<1>5. u \in Seq(Keys) /\ Len(u) = Len(s) /\ \A i \in 1..Len(s) : u[i] = s[o(i)]
  <2>1. u \in [1..Len(s) -> Keys]
    BY <1>1, <1>4
  <2>2. Len(s) \in Nat
    BY <1>1
  <2>3. u \in Seq(Keys) /\ Len(u) = Len(s)
    BY ONLY <2>1, <2>2
  <2> QED BY <2>3
<1> HIDE DEF u
<1>6. Distinct(u)
  <2> SUFFICES ASSUME NEW x \in 1..Len(s), NEW y \in 1..Len(s), u[x] = u[y] PROVE x = y
    BY <1>5 DEF Distinct
  <2>1. o(x) = o(y)
    <3>1. PICK v, w \in 1..Len(s) : v = o(x) /\ w = o(y)
      BY <1>4
    <3>2. s[v] = s[w]
      BY <1>5, <3>1
    <3>3. v = w
      BY <1>1, <3>2
    <3> QED BY <3>1, <3>3
  <2>2. o(o(x)) = x /\ o(o(y)) = y
    BY <1>4
  <2> QED BY ONLY <2>1, <2>2
<1>7. \A i \in Int : At(u, i) = At(s, o(i))
  BY <1>2, <1>5 DEF At
<1>8. Range(u) = Range(s)
  <2>1. ASSUME NEW x \in Range(u) PROVE x \in Range(s)
    <3>1. PICK i \in 1..Len(s) : u[i] = x
      BY <1>5, RangeIs
    <3>2. o(i) \in 1..Len(s) /\ s[o(i)] = x
      BY <1>4, <1>5, <3>1
    <3> QED BY <1>1, <3>2, RangeIs
  <2>2. ASSUME NEW x \in Range(s) PROVE x \in Range(u)
    <3>1. PICK i \in 1..Len(s) : s[i] = x
      BY <1>1, RangeIs
    <3>2. PICK m \in 1..Len(s) : m = o(i) /\ o(m) = i
      BY <1>4
    <3>3. u[m] = x
      BY <1>5, <3>1, <3>2
    <3> QED BY <1>5, <3>3, RangeIs
  <2> QED BY <2>1, <2>2
(* The neighbours. *)
<1>9. f[e] = At(s, j + 1) /\ g[q] = At(s, h - 1)
  BY <1>1, <1>3
<1>10. ASSUME NEW m \in 1..Len(s)
       PROVE  /\ s[m] = e <=> m = j
              /\ s[m] = q <=> m = h
              /\ s[m] = f[e] <=> m = j + 1
              /\ s[m] = g[q] <=> m = h - 1
  <2>1. ASSUME NEW v \in Int PROVE s[m] = At(s, v) <=> m = v
    BY ListAt
  <2>2. j + 1 \in Int /\ h - 1 \in Int
    OBVIOUS
  <2>3. (s[m] = e <=> m = j) /\ (s[m] = q <=> m = h)
    <3>1. \A i \in 1..Len(s) : s[m] = s[i] => m = i
      BY <1>1
    <3>2. e = s[j] /\ j \in 1..Len(s) /\ h \in 1..Len(s)
      OBVIOUS
    <3> QED BY ONLY <1>3, <3>1, <3>2
  <2>4. s[m] = At(s, j + 1) <=> m = j + 1
    BY ONLY <2>1, <2>2
  <2>5. s[m] = At(s, h - 1) <=> m = h - 1
    BY ONLY <2>1, <2>2
  <2> QED BY ONLY <1>9, <2>3, <2>4, <2>5
<1>11. ASSUME NEW m \in 1..Len(s)
       PROVE  /\ f2[s[m]] = IF m = j THEN s[h] ELSE IF m = h THEN At(s, j + 1)
                            ELSE IF m = h - 1 THEN s[j] ELSE At(s, m + 1)
              /\ g2[s[m]] = IF m = j THEN At(s, h - 1) ELSE IF m = h THEN s[j]
                            ELSE IF m = j + 1 THEN s[h] ELSE At(s, m - 1)
  <2>1. s[m] \in Keys /\ f[s[m]] = At(s, m + 1) /\ g[s[m]] = At(s, m - 1)
    BY <1>1
  <2>2. f2[s[m]] = IF s[m] = e THEN q ELSE IF s[m] = q THEN f[e]
                   ELSE IF s[m] = g[q] THEN e ELSE f[s[m]]
    BY <2>1
  <2>3. g2[s[m]] = IF s[m] = e THEN g[q] ELSE IF s[m] = q THEN e
                   ELSE IF s[m] = f[e] THEN q ELSE g[s[m]]
    BY <2>1
  <2>4. e = s[j]
    OBVIOUS
  <2> QED BY <1>3, <1>9, <1>10, <2>1, <2>2, <2>3, <2>4
<1>12. ASSUME NEW i \in 1..Len(s)
       PROVE  f2[u[i]] = At(u, i + 1) /\ g2[u[i]] = At(u, i - 1)
  <2>0. /\ \A v \in 1..Len(s) : At(s, v) = s[v]
        /\ At(u, i + 1) = At(s, o(i + 1)) /\ At(u, i - 1) = At(s, o(i - 1))
    <3>1. i + 1 \in Int /\ i - 1 \in Int
      OBVIOUS
    <3> QED BY <1>1, <1>7, <3>1
  <2>1. CASE i = j
    <3>1. u[i] = s[h] /\ f2[s[h]] = At(s, j + 1) /\ g2[s[h]] = s[j]
      BY <1>2, <1>5, <1>11, <2>1
    <3>2. o(i + 1) = j + 1 /\ o(i - 1) = j
      BY <1>2, <2>1
    <3> QED BY <2>0, <3>1, <3>2
  <2>2. CASE i = h
    <3>1. u[i] = s[j] /\ f2[s[j]] = s[h] /\ g2[s[j]] = At(s, h - 1)
      BY <1>2, <1>5, <1>11, <2>2
    <3>2. o(i + 1) = h /\ o(i - 1) = h - 1
      BY <1>2, <2>2
    <3> QED BY <2>0, <3>1, <3>2
  <2>3. CASE i # j /\ i # h
    <3>1. /\ u[i] = s[i]
          /\ f2[s[i]] = IF i = h - 1 THEN s[j] ELSE At(s, i + 1)
          /\ g2[s[i]] = IF i = j + 1 THEN s[h] ELSE At(s, i - 1)
      BY <1>5, <1>11, <2>3
    <3>2. /\ o(i + 1) = IF i = h - 1 THEN j ELSE i + 1
          /\ o(i - 1) = IF i = j + 1 THEN h ELSE i - 1
      BY <1>2, <2>3
    <3> QED BY <2>0, <3>1, <3>2
  <2> QED BY <2>1, <2>2, <2>3
<1>13. (IF g[q] = NULL THEN e ELSE p) = At(u, 1)
  <2>1. g[q] = NULL <=> h = 1
    <3>1. h = 1 => h - 1 \in Int /\ h - 1 \notin 1..Len(s)
      OBVIOUS
    <3>2. h # 1 => h - 1 \in 1..Len(s)
      BY <1>1
    <3>3. \A v \in Int : (At(s, v) = NULL) = (v \notin 1..Len(s))
      BY <1>0, AtIs
    <3>4. h - 1 \in Int
      OBVIOUS
    <3> QED BY <1>9, <3>1, <3>2, <3>3, <3>4
  <2>2. At(u, 1) = At(s, o(1)) /\ o(1) = IF h = 1 THEN j ELSE 1
    <3>1. o(1) = IF h = 1 THEN j ELSE 1
      BY <1>2
    <3> QED BY <1>7, <3>1
  <2> QED BY <1>1, <2>1, <2>2
<1>14. List(f2, g2, IF g[q] = NULL THEN e ELSE p, u)
  BY <1>5, <1>6, <1>12, <1>13 DEF List
<1> QED BY <1>5, <1>8, <1>14

(* The first and the last entry, and where the links of a list's entries lead. *)
LEMMA ListEnds ==
  ASSUME NEW f, NEW g, NEW p, NEW s, List(f, g, p, s)
  PROVE  /\ p \in Range(s) \cup {NULL} /\ (p = NULL) = (s = <<>>)
         /\ At(s, Len(s)) \in Range(s) \cup {NULL}
         /\ (At(s, Len(s)) = NULL) = (p = NULL)
         /\ \A e \in Range(s) : f[e] \in Range(s) \cup {NULL} /\ g[e] \in Range(s) \cup {NULL}
         /\ \A e \in Range(s) : (g[e] = NULL) = (e = p)
         /\ NULL \notin Range(s) /\ Range(s) \subseteq Keys
<1>1. /\ s \in Seq(Keys) /\ p = At(s, 1)
      /\ \A i \in 1..Len(s) : f[s[i]] = At(s, i + 1) /\ g[s[i]] = At(s, i - 1)
      /\ \A i, j \in 1..Len(s) : s[i] = s[j] => i = j
  BY DEF List, Distinct
<1>2. /\ Len(s) \in Nat
      /\ \A i \in Int : /\ (At(s, i) = NULL) = (i \notin 1..Len(s))
                        /\ i \in 1..Len(s) => At(s, i) = s[i]
  BY <1>1, AtIs
<1>3. /\ Range(s) \subseteq Keys /\ NULL \notin Range(s)
      /\ \A i \in 1..Len(s) : s[i] \in Range(s)
      /\ \A x \in Range(s) : \E i \in 1..Len(s) : s[i] = x
  BY <1>1, RangeIs
<1>4. \A i \in Int : At(s, i) \in Range(s) \cup {NULL}
  BY <1>2, <1>3
<1>5. (p = NULL) = (s = <<>>) /\ (At(s, Len(s)) = NULL) = (p = NULL)
  <2>1. (s = <<>>) = (Len(s) = 0)
    BY <1>1, EmptySeq
  <2>2. (1 \notin 1..Len(s)) = (Len(s) = 0) /\ (Len(s) \notin 1..Len(s)) = (Len(s) = 0)
    BY <1>2
  <2> QED BY <1>1, <1>2, <2>1, <2>2
<1>6. ASSUME NEW e \in Range(s)
      PROVE  /\ f[e] \in Range(s) \cup {NULL} /\ g[e] \in Range(s) \cup {NULL}
             /\ (g[e] = NULL) = (e = p)
  <2>1. PICK i \in 1..Len(s) : s[i] = e
    BY <1>3
  <2>2. i + 1 \in Int /\ i - 1 \in Int /\ 1 \in 1..Len(s)
    BY <1>2
  <2>3. f[e] \in Range(s) \cup {NULL} /\ g[e] \in Range(s) \cup {NULL}
    BY <1>1, <1>4, <2>1, <2>2
  <2>4. (g[e] = NULL) = (i - 1 \notin 1..Len(s))
    <3>1. g[e] = At(s, i - 1)
      BY <1>1, <2>1
    <3>2. (At(s, i - 1) = NULL) = (i - 1 \notin 1..Len(s))
      BY <1>2, <2>2
    <3> QED BY ONLY <3>1, <3>2
  <2>5. (i - 1 \notin 1..Len(s)) = (i = 1)
    BY <1>2
  <2>6. (e = p) = (i = 1)
    BY <1>1, <1>2, <2>1, <2>2
  <2> QED BY <2>3, <2>4, <2>5, <2>6
<1>7. At(s, Len(s)) \in Range(s) \cup {NULL} /\ p \in Range(s) \cup {NULL}
  BY <1>1, <1>2, <1>4
<1> QED BY <1>3, <1>5, <1>6, <1>7

-----------------------------------------------------------------------------
(***************************************************************************)
(* Tables.  Good(t, age): the entries of t are those of age, in that order.*)
(***************************************************************************)
TableOf(size) ==
  [i_size : {size}, i_items : Nat,
   pp_entries : [0..size - 1 -> Pointer], p_nr : [0..size - 1 -> Nat],
   p_oldest : Pointer, p_newest : Pointer,
   p_data : [Keys -> Data \cup {NULL}],
   p_next : Links, p_prev : Links, p_older : Links, p_newer : Links]

Aged(t, age) ==
  List(t.p_newer, t.p_older, t.p_oldest, age) /\ t.p_newest = At(age, Len(age))

(* s is the chain of bucket b. *)
Chained(t, b, s) == List(t.p_next, t.p_prev, t.pp_entries[b], s)

Bucketed(t, held, b) ==
  \E s : /\ Chained(t, b, s) /\ t.p_nr[b] = Len(s)
         /\ \A k \in Keys : k \in Range(s) <=> k \in held /\ Bucket(t, k) = b

Cleared(t, k) == t.p_prev[k] = NULL /\ t.p_newer[k] = NULL

Good(t, age) ==
  /\ Aged(t, age) /\ t.i_items = Len(age)
  /\ \A b \in 0..t.i_size - 1 : Bucketed(t, Range(age), b)
  /\ \A k \in Keys : t.p_data[k] # NULL <=> k \in Range(age)
  /\ \A k \in Keys \ Range(age) : Cleared(t, k)

Positive == Nat \ {0}

(* The fields of a table and their types. *)
LEMMA TableIs ==
  ASSUME NEW size, NEW t \in TableOf(size)
  PROVE  /\ t.i_size = size /\ t.i_items \in Nat
         /\ t.pp_entries \in [0..size - 1 -> Pointer] /\ t.p_nr \in [0..size - 1 -> Nat]
         /\ t.p_oldest \in Pointer /\ t.p_newest \in Pointer
         /\ t.p_data \in [Keys -> Data \cup {NULL}]
         /\ t.p_next \in Links /\ t.p_prev \in Links /\ t.p_older \in Links /\ t.p_newer \in Links
BY DEF TableOf

(* A bucket's number is the hash modulo the size. *)
LEMMA BucketIs ==
  ASSUME NEW size \in Positive, NEW t \in TableOf(size), NEW k \in Keys
  PROVE  Bucket(t, k) \in 0..size - 1 /\ Bucket(t, k) = Hash[k] % size
<1>1. t.i_size = size /\ Hash[k] \in Nat
  BY TableIs, HashAssumption
<1>2. Hash[k] % size \in 0..size - 1
  BY <1>1 DEF Positive
<1> QED BY <1>1, <1>2 DEF Bucket

(* The list by age, forwards and backwards. *)
LEMMA AgedIs ==
  ASSUME NEW size, NEW t \in TableOf(size), NEW age, Aged(t, age)
  PROVE  /\ ByAge(t) = age /\ Follow(t.p_older, t.p_newest) = Reverse(age)
         /\ age \in Seq(Keys) /\ Distinct(age)
<1>1. t.p_newer \in Links /\ t.p_older \in Links
  BY TableIs
<1>2. List(t.p_newer, t.p_older, t.p_oldest, age) /\ t.p_newest = At(age, Len(age))
  BY DEF Aged
<1>3. Follow(t.p_newer, t.p_oldest) = age
  BY <1>1, <1>2, ListFollow
<1>4. Follow(t.p_older, At(age, Len(age))) = Reverse(age)
  BY <1>1, <1>2, ListBack
<1>5. age \in Seq(Keys) /\ Distinct(age)
  BY <1>2 DEF List
<1> QED BY <1>2, <1>3, <1>4, <1>5 DEF ByAge

(* A chain is what is followed from its bucket. *)
LEMMA ChainedIs ==
  ASSUME NEW size, NEW t \in TableOf(size), NEW b, NEW s, Chained(t, b, s)
  PROVE  Chain(t, b) = s
<1>1. t.p_next \in Links /\ t.p_prev \in Links
  BY TableIs
<1> QED BY <1>1, ListFollow DEF Chained, Chain

(* In a good table a chain has the held entries of its bucket, counted by p_nr. *)
LEMMA GoodIs ==
  ASSUME NEW size \in Positive, NEW t \in TableOf(size), NEW age, Good(t, age),
         NEW b \in 0..size - 1
  PROVE  /\ Chained(t, b, Chain(t, b)) /\ t.p_nr[b] = Len(Chain(t, b))
         /\ \A k \in Keys : k \in Range(Chain(t, b)) <=> k \in Range(age) /\ Bucket(t, k) = b
<1>1. t.i_size = size
  BY TableIs
<1>2. Bucketed(t, Range(age), b)
  BY <1>1 DEF Good
<1> QED BY <1>2, ChainedIs DEF Bucketed

(* A search in a good table finds what the list by age has. *)
LEMMA FoundIs ==
  ASSUME NEW size \in Positive, NEW t \in TableOf(size), NEW age, Good(t, age), NEW k \in Keys
  PROVE  Found(t, k) <=> k \in Range(age)
<1>1. Bucket(t, k) \in 0..size - 1
  BY BucketIs
<1>2. k \in Range(Chain(t, Bucket(t, k))) <=> k \in Range(age)
  BY <1>1, GoodIs
<1> QED BY <1>2 DEF Found

(* From t and the keys held to u and the keys now, only the chain of b is  *)
(* relinked.                                                               *)
OnlyChain(t, u, held, now, b) ==
  /\ \A c \in 0..t.i_size - 1 :
       c # b => u.pp_entries[c] = t.pp_entries[c] /\ u.p_nr[c] = t.p_nr[c]
  /\ \A k \in Keys : Bucket(t, k) # b =>
       /\ u.p_next[k] = t.p_next[k] /\ u.p_prev[k] = t.p_prev[k]
       /\ k \in now <=> k \in held

(* A step that only touches bucket b leaves every other bucket in order. *)
LEMMA OtherChains ==
  ASSUME NEW size \in Positive, NEW t \in TableOf(size), NEW u \in TableOf(size),
         NEW held, NEW now, NEW b, OnlyChain(t, u, held, now, b),
         NEW c \in 0..size - 1, c # b, Bucketed(t, held, c)
  PROVE  Bucketed(u, now, c)
<1>0. /\ u.pp_entries[c] = t.pp_entries[c] /\ u.p_nr[c] = t.p_nr[c]
      /\ \A k \in Keys : Bucket(t, k) # b =>
           /\ u.p_next[k] = t.p_next[k] /\ u.p_prev[k] = t.p_prev[k]
           /\ k \in now <=> k \in held
  <2>1. t.i_size = size
    BY TableIs
  <2> QED BY <2>1 DEF OnlyChain
<1>1. PICK s : /\ Chained(t, c, s) /\ t.p_nr[c] = Len(s)
               /\ \A k \in Keys : k \in Range(s) <=> k \in held /\ Bucket(t, k) = c
  BY DEF Bucketed
<1>2. List(t.p_next, t.p_prev, t.pp_entries[c], s)
  BY <1>1 DEF Chained
<1>3. Range(s) \subseteq Keys
  BY <1>2, RangeIs DEF List
<1>4. \A x \in Range(s) : u.p_next[x] = t.p_next[x] /\ u.p_prev[x] = t.p_prev[x]
  BY <1>0, <1>1, <1>3
<1>5. List(u.p_next, u.p_prev, t.pp_entries[c], s)
  BY <1>2, <1>4, ListFrame
<1>6. \A k \in Keys : Bucket(u, k) = Bucket(t, k)
  BY BucketIs
<1>7. \A k \in Keys : k \in Range(s) <=> k \in now /\ Bucket(u, k) = c
  BY <1>0, <1>1, <1>6
<1> QED BY <1>0, <1>1, <1>5, <1>7 DEF Bucketed, Chained

-----------------------------------------------------------------------------
(* Lookups. *)

(* What a heuristic may do to the table: relink one chain, to s. *)
Relinks(t, u, b, s) ==
  /\ Chained(u, b, s) /\ Range(s) = Range(Chain(t, b)) /\ Len(s) = Len(Chain(t, b))
  /\ \A c \in 0..t.i_size - 1 : c # b => u.pp_entries[c] = t.pp_entries[c]
  /\ u.p_nr = t.p_nr /\ u.i_items = t.i_items /\ u.p_data = t.p_data
  /\ u.p_newer = t.p_newer /\ u.p_older = t.p_older
  /\ u.p_oldest = t.p_oldest /\ u.p_newest = t.p_newest
  /\ \A k \in Keys : k \notin Range(s) =>
       u.p_next[k] = t.p_next[k] /\ u.p_prev[k] = t.p_prev[k]

(* A table stays good when the entries of one chain only change their order. *)
LEMMA Relinked ==
  ASSUME NEW size \in Positive, NEW t \in TableOf(size), NEW u \in TableOf(size),
         NEW age, Good(t, age), NEW b \in 0..size - 1, NEW s, Relinks(t, u, b, s)
  PROVE  Good(u, age)
<1>0. /\ Chained(u, b, s) /\ Range(s) = Range(Chain(t, b)) /\ Len(s) = Len(Chain(t, b))
      /\ u.p_nr = t.p_nr /\ u.i_items = t.i_items /\ u.p_data = t.p_data
      /\ u.p_newer = t.p_newer /\ u.p_older = t.p_older
      /\ u.p_oldest = t.p_oldest /\ u.p_newest = t.p_newest
      /\ \A k \in Keys : k \notin Range(s) =>
           u.p_next[k] = t.p_next[k] /\ u.p_prev[k] = t.p_prev[k]
  BY DEF Relinks
<1>1. t.i_size = size /\ u.i_size = size
  BY TableIs
<1>2. /\ t.p_nr[b] = Len(Chain(t, b))
      /\ \A k \in Keys : k \in Range(Chain(t, b)) <=> k \in Range(age) /\ Bucket(t, k) = b
  BY GoodIs
<1>3. \A k \in Keys : Bucket(u, k) = Bucket(t, k)
  BY BucketIs
<1>4. Bucketed(u, Range(age), b)
  BY <1>0, <1>2, <1>3 DEF Bucketed
<1>5. ASSUME NEW c \in 0..size - 1, c # b PROVE Bucketed(u, Range(age), c)
  <2>1. Bucketed(t, Range(age), c)
    BY <1>1 DEF Good
  <2>2. OnlyChain(t, u, Range(age), Range(age), b)
    BY <1>0, <1>1, <1>2 DEF OnlyChain, Relinks
  <2> QED BY <1>5, <2>1, <2>2, OtherChains
<1>6. \A k \in Keys \ Range(age) : Cleared(u, k)
  BY <1>0, <1>2 DEF Good, Cleared
<1>7. Aged(u, age)
  BY <1>0 DEF Good, Aged
<1>8. \A c \in 0..u.i_size - 1 : Bucketed(u, Range(age), c)
  BY <1>1, <1>4, <1>5
<1>9. /\ u.i_items = Len(age)
      /\ \A k \in Keys : u.p_data[k] # NULL <=> k \in Range(age)
  BY <1>0 DEF Good
<1> QED BY ONLY <1>6, <1>7, <1>8, <1>9 DEF Good

(* transpose: the entry found and the one before it change places. *)
LEMMA TransposeGood ==
  ASSUME NEW size \in Positive, NEW t \in TableOf(size), NEW age, Good(t, age),
         NEW b \in 0..size - 1, NEW e \in Range(Chain(t, b))
  PROVE  /\ Transpose(t, b, e) \in TableOf(size) /\ Good(Transpose(t, b, e), age)
         /\ Transpose(t, b, e).p_data = t.p_data
<1>0. PICK f, g, p, s, q : /\ f = t.p_next /\ g = t.p_prev /\ p = t.pp_entries[b]
                           /\ s = Chain(t, b) /\ q = g[e]
  OBVIOUS
<1> DEFINE u == Transpose(t, b, e)
<1>1. /\ t.i_size = size /\ f \in Links /\ g \in Links
      /\ t.pp_entries \in [0..size - 1 -> Pointer]
  BY <1>0, TableIs
<1>2. List(f, g, p, s)
  BY <1>0, GoodIs DEF Chained
<1>3. /\ \A x \in Range(s) : f[x] \in Range(s) \cup {NULL} /\ g[x] \in Range(s) \cup {NULL}
      /\ NULL \notin Range(s) /\ Range(s) \subseteq Keys
  BY <1>2, ListEnds
<1>4. CASE q = NULL
  <2>1. u = t
    BY <1>0, <1>4 DEF Transpose
  <2> QED BY <2>1
<1>5. CASE q # NULL
  <2>1. q \in Range(s) /\ e \in Keys /\ q \in Keys /\ e \in Range(s)
    BY <1>0, <1>3, <1>5
  <2>a. PICK a, n : a = g[q] /\ n = f[e]
    OBVIOUS
  <2> DEFINE f2 == [Set(f, a, e) EXCEPT ![q] = n, ![e] = q]
             g2 == [Set(g, n, q) EXCEPT ![q] = e, ![e] = a]
  <2>2. a \in Range(s) \cup {NULL} /\ n \in Range(s) \cup {NULL}
    BY <1>3, <2>1, <2>a
  <2>3. a \in Pointer /\ n \in Pointer /\ e \in Pointer /\ q \in Pointer
    BY <1>3, <2>1, <2>2 DEF Pointer
  <2>4. u = [t EXCEPT !.pp_entries[b] = IF a = NULL THEN e ELSE @,
                      !.p_next = f2, !.p_prev = g2]
    BY <1>0, <1>5, <2>a DEF Transpose
  <2>b. Set(f, a, e) \in Links /\ \A x \in Keys : Set(f, a, e)[x] = IF x = a THEN e ELSE f[x]
    BY <1>1, <2>3, SetIs
  <2>5. Set(g, n, q) \in Links /\ \A x \in Keys : Set(g, n, q)[x] = IF x = n THEN q ELSE g[x]
    BY <1>1, <2>3, SetIs
  <2>6. /\ f2 \in Links
        /\ \A x \in Keys : f2[x] = IF x = e THEN q ELSE IF x = q THEN n
                                   ELSE IF x = a THEN e ELSE f[x]
    BY <2>1, <2>3, <2>b, <2>5 DEF Links
  <2>7. /\ g2 \in Links
        /\ \A x \in Keys : g2[x] = IF x = e THEN a ELSE IF x = q THEN e
                                   ELSE IF x = n THEN q ELSE g[x]
    BY <2>1, <2>3, <2>b, <2>5 DEF Links
  <2> HIDE DEF f2, g2
  <2>8. u \in TableOf(size)
    <3>1. [t.pp_entries EXCEPT ![b] = IF a = NULL THEN e ELSE @] \in [0..size - 1 -> Pointer]
      BY <1>1, <2>3
    <3> QED BY <2>4, <2>6, <2>7, <3>1 DEF TableOf
  <2>9. PICK r : /\ List(f2, g2, IF a = NULL THEN e ELSE p, r)
                 /\ Range(r) = Range(s) /\ Len(r) = Len(s)
    <3>1. PICK j \in 1..Len(s) : s[j] = e
      BY <1>2, <2>1, RangeIs DEF List
    <3>2. \A x \in Keys : f2[x] = IF x = e THEN q ELSE IF x = q THEN f[e]
                                   ELSE IF x = g[q] THEN e ELSE f[x]
      BY <2>a, <2>6
    <3>3. \A x \in Keys : g2[x] = IF x = e THEN g[q] ELSE IF x = q THEN e
                                   ELSE IF x = f[e] THEN q ELSE g[x]
      BY <2>a, <2>7
    <3>4. q = g[e] /\ e = s[j] /\ f2 \in Links /\ g2 \in Links /\ f \in Links /\ g \in Links
      BY <1>0, <1>1, <2>6, <2>7, <3>1
    <3>5. \E r : /\ List(f2, g2, IF g[q] = NULL THEN e ELSE p, r)
                 /\ Range(r) = Range(s) /\ Len(r) = Len(s)
      BY ONLY <1>2, <1>5, <3>2, <3>3, <3>4, j \in 1..Len(s), ListSwap
    <3> QED BY <2>a, <3>5
  <2>c. u.pp_entries = [t.pp_entries EXCEPT ![b] = IF a = NULL THEN e ELSE @]
    BY <2>4 DEF TableOf
  <2>10. /\ u.pp_entries[b] = (IF a = NULL THEN e ELSE p) /\ u.p_next = f2 /\ u.p_prev = g2
         /\ \A c \in 0..size - 1 : c # b => u.pp_entries[c] = t.pp_entries[c]
         /\ u.p_nr = t.p_nr /\ u.i_items = t.i_items /\ u.p_data = t.p_data
         /\ u.p_newer = t.p_newer /\ u.p_older = t.p_older
         /\ u.p_oldest = t.p_oldest /\ u.p_newest = t.p_newest
    BY <1>0, <1>1, <2>4, <2>c DEF TableOf
  <2>11. \A k \in Keys : k \notin Range(r) => f2[k] = f[k] /\ g2[k] = g[k]
    BY <2>1, <2>2, <2>6, <2>7, <2>9, NullAssumption
  <2>12. Relinks(t, u, b, r)
    BY <1>0, <1>1, <2>9, <2>10, <2>11 DEF Relinks, Chained
  <2> QED BY <2>8, <2>10, <2>12, Relinked
<1> QED BY <1>4, <1>5

(* move_to_front: the entry found becomes the first of its chain. *)
LEMMA MoveToFrontGood ==
  ASSUME NEW size \in Positive, NEW t \in TableOf(size), NEW age, Good(t, age),
         NEW b \in 0..size - 1, NEW e \in Range(Chain(t, b))
  PROVE  /\ MoveToFront(t, b, e) \in TableOf(size) /\ Good(MoveToFront(t, b, e), age)
         /\ MoveToFront(t, b, e).p_data = t.p_data
<1>0. PICK f, g, p, s : /\ f = t.p_next /\ g = t.p_prev /\ p = t.pp_entries[b]
                        /\ s = Chain(t, b)
  OBVIOUS
<1> DEFINE u == MoveToFront(t, b, e)
<1>1. /\ t.i_size = size /\ f \in Links /\ g \in Links
      /\ t.pp_entries \in [0..size - 1 -> Pointer]
  BY <1>0, TableIs
<1>2. List(f, g, p, s)
  BY <1>0, GoodIs DEF Chained
<1>3. /\ \A x \in Range(s) : f[x] \in Range(s) \cup {NULL} /\ g[x] \in Range(s) \cup {NULL}
      /\ p \in Range(s) \cup {NULL} /\ (g[e] = NULL) = (e = p)
      /\ NULL \notin Range(s) /\ Range(s) \subseteq Keys
      /\ (p = NULL) = (s = <<>>)
  <2>1. e \in Range(s)
    BY <1>0
  <2> QED BY <1>2, <2>1, ListEnds
<1>4. CASE e = p
  <2>1. u = t
    BY <1>0, <1>4 DEF MoveToFront
  <2> QED BY <2>1
<1>5. CASE e # p
  <2>a. PICK q, n : q = g[e] /\ n = f[e]
    OBVIOUS
  <2> DEFINE f2 == [f EXCEPT ![q] = n, ![e] = p]
             g2 == [Set(g, n, q) EXCEPT ![e] = NULL, ![p] = e]
  <2>1. q \in Range(s) /\ e \in Keys /\ q \in Keys /\ e \in Range(s) /\ p \in Range(s) /\ p \in Keys
    <3>1. s # <<>>
      BY <1>0 DEF Range
    <3> QED BY <1>0, <1>3, <1>5, <2>a, <3>1
  <2>2. n \in Range(s) \cup {NULL}
    BY <1>3, <2>1, <2>a
  <2>3. n \in Pointer /\ e \in Pointer /\ q \in Pointer /\ p \in Pointer /\ NULL \in Pointer
    BY <1>3, <2>1, <2>2 DEF Pointer
  <2>4. u = [t EXCEPT !.pp_entries[b] = e, !.p_next = f2, !.p_prev = g2]
    BY <1>0, <1>5, <2>a DEF MoveToFront
  <2>5. Set(g, n, q) \in Links /\ \A x \in Keys : Set(g, n, q)[x] = IF x = n THEN q ELSE g[x]
    BY <1>1, <2>3, SetIs
  <2>6. /\ f2 \in Links
        /\ \A x \in Keys : f2[x] = IF x = e THEN p ELSE IF x = q THEN n ELSE f[x]
    BY <1>1, <2>1, <2>3 DEF Links
  <2>7. /\ g2 \in Links
        /\ \A x \in Keys : g2[x] = IF x = e THEN NULL ELSE IF x = p THEN e
                                   ELSE IF x = n THEN q ELSE g[x]
    BY <1>5, <2>1, <2>3, <2>5 DEF Links
  <2> HIDE DEF f2, g2
  <2>8. u \in TableOf(size)
    <3>1. [t.pp_entries EXCEPT ![b] = e] \in [0..size - 1 -> Pointer]
      BY <1>1, <2>3
    <3> QED BY <2>4, <2>6, <2>7, <3>1 DEF TableOf
  <2>9. PICK r : /\ List(f2, g2, e, r)
                 /\ Range(r) = Range(s) /\ Len(r) = Len(s)
    <3>1. PICK j \in 1..Len(s) : s[j] = e
      BY <1>2, <2>1, RangeIs DEF List
    <3> QED BY <1>1, <1>2, <1>5, <2>a, <2>6, <2>7, <3>1, ListToFront
  <2>10. /\ u.pp_entries[b] = e /\ u.p_next = f2 /\ u.p_prev = g2
         /\ \A c \in 0..size - 1 : c # b => u.pp_entries[c] = t.pp_entries[c]
         /\ u.p_nr = t.p_nr /\ u.i_items = t.i_items /\ u.p_data = t.p_data
         /\ u.p_newer = t.p_newer /\ u.p_older = t.p_older
         /\ u.p_oldest = t.p_oldest /\ u.p_newest = t.p_newest
    <3>1. /\ u.pp_entries = [t.pp_entries EXCEPT ![b] = e] /\ u.p_next = f2 /\ u.p_prev = g2
          /\ u.p_nr = t.p_nr /\ u.i_items = t.i_items /\ u.p_data = t.p_data
          /\ u.p_newer = t.p_newer /\ u.p_older = t.p_older
          /\ u.p_oldest = t.p_oldest /\ u.p_newest = t.p_newest
      BY <2>4 DEF TableOf
    <3> QED BY <1>1, <3>1
  <2>11. \A k \in Keys : k \notin Range(r) => f2[k] = f[k] /\ g2[k] = g[k]
    BY <2>1, <2>2, <2>6, <2>7, <2>9, NullAssumption
  <2>12. Relinks(t, u, b, r)
    BY <1>0, <1>1, <2>9, <2>10, <2>11 DEF Relinks, Chained
  <2> QED BY <2>8, <2>10, <2>12, Relinked
<1> QED BY <1>4, <1>5

(* search_in_bucket, whatever the heuristic. *)
LEMMA SearchGood ==
  ASSUME NEW size \in Positive, NEW t \in TableOf(size), NEW age, Good(t, age),
         NEW k \in Keys, k \in Range(age)
  PROVE  /\ Search(t, k) \in TableOf(size) /\ Good(Search(t, k), age)
         /\ Search(t, k).p_data = t.p_data
<1>1. PICK b \in 0..size - 1 : b = Bucket(t, k)
  BY BucketIs
<1>2. k \in Range(Chain(t, b))
  BY <1>1, GoodIs
<1>3. /\ Transpose(t, b, k) \in TableOf(size) /\ Good(Transpose(t, b, k), age)
      /\ Transpose(t, b, k).p_data = t.p_data
  BY <1>2, TransposeGood
<1>4. /\ MoveToFront(t, b, k) \in TableOf(size) /\ Good(MoveToFront(t, b, k), age)
      /\ MoveToFront(t, b, k).p_data = t.p_data
  BY <1>2, MoveToFrontGood
<1>5. Search(t, k) = t \/ Search(t, k) = Transpose(t, b, k) \/ Search(t, k) = MoveToFront(t, b, k)
  BY <1>1 DEF Search
<1> QED BY <1>3, <1>4, <1>5

(***************************************************************************)
(* Insertions and removals.                                                *)
(***************************************************************************)

(* The entry e is out of both lists and freed. *)
Unlink(t, b, e) == Finalize(RemoveFromChain(t, b, e), e)

(* What that leaves alone, s being the chain and age the list e was in. *)
Unlinks(t, u, b, s, age, e) ==
  /\ u.i_items = t.i_items /\ u.p_nr = t.p_nr
  /\ \A c \in 0..t.i_size - 1 : c # b => u.pp_entries[c] = t.pp_entries[c]
  /\ \A k \in Keys : u.p_data[k] = IF k = e THEN NULL ELSE t.p_data[k]
  /\ \A k \in Keys \ Range(s) : u.p_next[k] = t.p_next[k] /\ u.p_prev[k] = t.p_prev[k]
  /\ \A k \in Keys \ Range(age) : u.p_newer[k] = t.p_newer[k]
  /\ Cleared(u, e)

(* What remove_from_chain does to the chain and to the list by age. *)
LEMMA Unlinked ==
  ASSUME NEW size \in Positive, NEW t \in TableOf(size), NEW b \in 0..size - 1,
         NEW age, Aged(t, age), NEW s, Chained(t, b, s),
         NEW i \in 1..Len(age), NEW j \in 1..Len(s), NEW e, e = age[i], e = s[j]
  PROVE  /\ Unlink(t, b, e) \in TableOf(size)
         /\ Aged(Unlink(t, b, e), RemoveAt(age, i))
         /\ Chained(Unlink(t, b, e), b, RemoveAt(s, j))
         /\ Unlinks(t, Unlink(t, b, e), b, s, age, e)
<1>0. PICK u : u = Unlink(t, b, e)
  OBVIOUS
<1>a. PICK nx, pr, nw, ol : /\ nx = t.p_next /\ pr = t.p_prev
                            /\ nw = t.p_newer /\ ol = t.p_older
  OBVIOUS
<1>1. /\ t.i_size = size /\ nx \in Links /\ pr \in Links /\ nw \in Links /\ ol \in Links
      /\ t.pp_entries \in [0..size - 1 -> Pointer] /\ t.p_data \in [Keys -> Data \cup {NULL}]
      /\ t.p_oldest \in Pointer /\ t.p_newest \in Pointer
  BY <1>a, TableIs
<1>2. List(nx, pr, t.pp_entries[b], s)
  BY <1>a DEF Chained
<1>3. List(nw, ol, t.p_oldest, age) /\ t.p_newest = At(age, Len(age))
  BY <1>a DEF Aged
<1>4. PICK p, n, o, w : p = pr[e] /\ n = nx[e] /\ o = ol[e] /\ w = nw[e]
  OBVIOUS
<1>5. /\ s \in Seq(Keys) /\ age \in Seq(Keys) /\ e \in Range(s) /\ e \in Range(age) /\ e \in Keys
      /\ NULL \notin Range(s) /\ NULL \notin Range(age)
  BY <1>2, <1>3, RangeIs DEF List
<1>6. p \in Range(s) \cup {NULL} /\ n \in Range(s) \cup {NULL}
  BY <1>2, <1>4, <1>5, ListEnds
<1>7. o \in Range(age) \cup {NULL} /\ w \in Range(age) \cup {NULL}
  BY <1>3, <1>4, <1>5, ListEnds
<1>8. p \in Pointer /\ n \in Pointer /\ o \in Pointer /\ w \in Pointer /\ NULL \in Pointer
  BY <1>1, <1>4, <1>5 DEF Links, Pointer
<1> DEFINE nx2 == [Set(nx, p, n) EXCEPT ![e] = NULL]
           pr2 == [Set(pr, n, p) EXCEPT ![e] = NULL]
           nw2 == [Set(nw, o, w) EXCEPT ![e] = NULL]
           ol2 == [Set(ol, w, o) EXCEPT ![e] = NULL]
           pp2 == [t.pp_entries EXCEPT ![b] = IF p = NULL THEN n ELSE @]
           da2 == [t.p_data EXCEPT ![e] = NULL]
<1>b. PICK r : r = RemoveFromChain(t, b, e)
  OBVIOUS
<1>c. r = [t EXCEPT !.p_next = Set(nx, p, n), !.p_prev = Set(pr, n, p),
                    !.pp_entries = pp2,
                    !.p_newer = Set(nw, o, w), !.p_older = Set(ol, w, o),
                    !.p_oldest = IF o = NULL THEN w ELSE @,
                    !.p_newest = IF w = NULL THEN o ELSE @]
  BY <1>b, <1>a, <1>4 DEF RemoveFromChain, TableOf
<1>9. u = [r EXCEPT !.p_data = [r.p_data EXCEPT ![e] = NULL],
                    !.p_next = [r.p_next EXCEPT ![e] = NULL],
                    !.p_prev = [r.p_prev EXCEPT ![e] = NULL],
                    !.p_older = [r.p_older EXCEPT ![e] = NULL],
                    !.p_newer = [r.p_newer EXCEPT ![e] = NULL]]
  BY <1>0, <1>b DEF Unlink, Finalize
<1>10. \A f \in Links, x, v \in Pointer :
         /\ [Set(f, x, v) EXCEPT ![e] = NULL] \in Links
         /\ \A k \in Keys : [Set(f, x, v) EXCEPT ![e] = NULL][k] =
                              IF k = e THEN NULL ELSE IF k = x THEN v ELSE f[k]
  <2> SUFFICES ASSUME NEW f \in Links, NEW x \in Pointer, NEW v \in Pointer
               PROVE  /\ [Set(f, x, v) EXCEPT ![e] = NULL] \in Links
                      /\ \A k \in Keys : [Set(f, x, v) EXCEPT ![e] = NULL][k] =
                              IF k = e THEN NULL ELSE IF k = x THEN v ELSE f[k]
    OBVIOUS
  <2>1. PICK h : h = Set(f, x, v)
    OBVIOUS
  <2>2. h \in Links /\ \A k \in Keys : h[k] = IF k = x THEN v ELSE f[k]
    BY <2>1, SetIs
  <2> QED BY <1>5, <1>8, <2>1, <2>2 DEF Links
<1>11. nx2 \in Links /\ \A k \in Keys : nx2[k] = IF k = e THEN NULL ELSE IF k = p THEN n ELSE nx[k]
  BY <1>1, <1>8, <1>10
<1>12. pr2 \in Links /\ \A k \in Keys : pr2[k] = IF k = e THEN NULL ELSE IF k = n THEN p ELSE pr[k]
  BY <1>1, <1>8, <1>10
<1>13. nw2 \in Links /\ \A k \in Keys : nw2[k] = IF k = e THEN NULL ELSE IF k = o THEN w ELSE nw[k]
  BY <1>1, <1>8, <1>10
<1>14. ol2 \in Links /\ \A k \in Keys : ol2[k] = IF k = e THEN NULL ELSE IF k = w THEN o ELSE ol[k]
  BY <1>1, <1>8, <1>10
<1>15. /\ pp2 \in [0..size - 1 -> Pointer] /\ pp2[b] = (IF p = NULL THEN n ELSE t.pp_entries[b])
       /\ \A c \in 0..size - 1 : c # b => pp2[c] = t.pp_entries[c]
  BY <1>1, <1>8
<1>16. /\ da2 \in [Keys -> Data \cup {NULL}]
       /\ \A k \in Keys : da2[k] = IF k = e THEN NULL ELSE t.p_data[k]
  BY <1>1
<1> HIDE DEF nx2, pr2, nw2, ol2, pp2, da2
<1>d. /\ Set(nx, p, n) \in Links /\ Set(pr, n, p) \in Links
      /\ Set(nw, o, w) \in Links /\ Set(ol, w, o) \in Links
  BY <1>1, <1>8, SetIs
<1>e. /\ r \in TableOf(size)
      /\ r.p_next = Set(nx, p, n) /\ r.p_prev = Set(pr, n, p) /\ r.p_newer = Set(nw, o, w)
      /\ r.p_older = Set(ol, w, o) /\ r.pp_entries = pp2 /\ r.p_data = t.p_data
      /\ r.i_items = t.i_items /\ r.p_nr = t.p_nr
      /\ r.p_oldest = (IF o = NULL THEN w ELSE t.p_oldest)
      /\ r.p_newest = (IF w = NULL THEN o ELSE t.p_newest)
  BY <1>1, <1>8, <1>c, <1>d, <1>15 DEF TableOf
<1>f. u = [r EXCEPT !.p_data = da2, !.p_next = nx2, !.p_prev = pr2, !.p_older = ol2,
                    !.p_newer = nw2]
  BY <1>9, <1>e DEF nx2, pr2, nw2, ol2, da2
<1>17. u \in TableOf(size)
  BY <1>e, <1>f, <1>11, <1>12, <1>13, <1>14, <1>16 DEF TableOf
<1>18. /\ u.p_next = nx2 /\ u.p_prev = pr2 /\ u.p_newer = nw2 /\ u.p_older = ol2
       /\ u.pp_entries = pp2 /\ u.p_data = da2 /\ u.i_items = t.i_items /\ u.p_nr = t.p_nr
       /\ u.p_oldest = (IF o = NULL THEN w ELSE t.p_oldest)
       /\ u.p_newest = (IF w = NULL THEN o ELSE t.p_newest)
  BY <1>e, <1>f DEF TableOf
<1>19. Chained(u, b, RemoveAt(s, j))
  <2>1. Removing(nx, pr, e, nx2, pr2)
    BY <1>4, <1>11, <1>12 DEF Removing
  <2>3. nx2 \in Links /\ pr2 \in Links
    BY <1>11, <1>12
  <2>4. List(nx2, pr2, IF pr[e] = NULL THEN nx[e] ELSE t.pp_entries[b], RemoveAt(s, j))
    BY <1>1, <1>2, <2>1, <2>3, ListRemove
  <2> QED BY <1>4, <1>15, <1>18, <2>4 DEF Chained
<1>20. Aged(u, RemoveAt(age, i))
  <2>1. Removing(nw, ol, e, nw2, ol2)
    BY <1>4, <1>13, <1>14 DEF Removing
  <2>3. nw2 \in Links /\ ol2 \in Links
    BY <1>13, <1>14
  <2>4. /\ List(nw2, ol2, IF ol[e] = NULL THEN nw[e] ELSE t.p_oldest, RemoveAt(age, i))
        /\ At(RemoveAt(age, i), Len(age) - 1) = IF nw[e] = NULL THEN ol[e] ELSE At(age, Len(age))
    <3>1. nw \in Links /\ ol \in Links /\ e = age[i] /\ i \in 1..Len(age)
      BY <1>1
    <3> QED BY ONLY <1>3, <2>1, <2>3, <3>1, ListRemove
  <2>5. Len(RemoveAt(age, i)) = Len(age) - 1
    BY <1>5, RemoveAtIs
  <2> QED BY <1>3, <1>4, <1>18, <2>4, <2>5 DEF Aged
<1>21. Unlinks(t, u, b, s, age, e)
  <2>1. \A k \in Keys \ Range(s) : nx2[k] = nx[k] /\ pr2[k] = pr[k]
    <3> SUFFICES ASSUME NEW k \in Keys, k \notin Range(s)
                 PROVE  nx2[k] = nx[k] /\ pr2[k] = pr[k]
      OBVIOUS
    <3>1. k # e /\ k # p /\ k # n
      BY <1>5, <1>6, NullAssumption
    <3> QED BY <1>11, <1>12, <3>1
  <2>2. \A k \in Keys \ Range(age) : nw2[k] = nw[k]
    <3> SUFFICES ASSUME NEW k \in Keys, k \notin Range(age) PROVE nw2[k] = nw[k]
      OBVIOUS
    <3>1. k # e /\ k # o
      BY <1>5, <1>7, NullAssumption
    <3> QED BY <1>13, <3>1
  <2>3. Cleared(u, e)
    BY <1>5, <1>12, <1>13, <1>18 DEF Cleared
  <2> QED BY <1>a, <1>1, <1>15, <1>16, <1>18, <2>1, <2>2, <2>3 DEF Unlinks
<1> QED BY <1>0, <1>17, <1>19, <1>20, <1>21

(* ght_remove, once the entry is found. *)
Removed(t, b, e) == [Unlink(t, b, e) EXCEPT !.i_items = @ - 1, !.p_nr[b] = @ - 1]

(* ght_remove of an entry that is there. *)
LEMMA RemoveGood ==
  ASSUME NEW size \in Positive, NEW t \in TableOf(size), NEW age, Good(t, age),
         NEW i \in 1..Len(age), NEW e, e = age[i], NEW b, b = Bucket(t, e)
  PROVE  /\ Removed(t, b, e) \in TableOf(size)
         /\ Good(Removed(t, b, e), RemoveAt(age, i))
         /\ \A k \in Keys : Removed(t, b, e).p_data[k] = IF k = e THEN NULL ELSE t.p_data[k]
<1>0. PICK u, v, s, now : /\ u = Removed(t, b, e) /\ v = Unlink(t, b, e)
                          /\ s = Chain(t, b) /\ now = RemoveAt(age, i)
  OBVIOUS
<1>1. /\ Aged(t, age) /\ t.i_items = Len(age) /\ t.i_size = size
      /\ \A c \in 0..size - 1 : Bucketed(t, Range(age), c)
      /\ \A k \in Keys : t.p_data[k] # NULL <=> k \in Range(age)
      /\ \A k \in Keys \ Range(age) : Cleared(t, k)
  BY TableIs DEF Good
<1>2. age \in Seq(Keys) /\ Distinct(age) /\ e \in Keys /\ e \in Range(age) /\ Len(age) \in Nat
  BY <1>1, RangeIs, AtIs DEF Aged, List
<1>3. b \in 0..size - 1
  BY <1>2, BucketIs
<1>4. /\ Chained(t, b, s) /\ t.p_nr[b] = Len(s)
      /\ \A k \in Keys : k \in Range(s) <=> k \in Range(age) /\ Bucket(t, k) = b
  BY <1>0, <1>3, GoodIs
<1>5. s \in Seq(Keys) /\ Distinct(s) /\ Len(s) \in Nat
  BY <1>4, AtIs DEF Chained, List
<1>6. PICK j \in 1..Len(s) : s[j] = e
  BY <1>2, <1>4, <1>5, RangeIs
<1>7. /\ v \in TableOf(size) /\ Aged(v, now) /\ Chained(v, b, RemoveAt(s, j))
      /\ Unlinks(t, v, b, s, age, e)
  BY <1>0, <1>1, <1>3, <1>4, <1>6, Unlinked
<1>8. /\ Len(now) = Len(age) - 1 /\ Range(now) = Range(age) \ {e}
      /\ Len(RemoveAt(s, j)) = Len(s) - 1 /\ Range(RemoveAt(s, j)) = Range(s) \ {e}
  <2>1. Len(now) = Len(age) - 1 /\ Range(now) = Range(age) \ {e}
    BY <1>0, <1>2, RemoveAtIs, RemoveAtDistinct
  <2>2. Len(RemoveAt(s, j)) = Len(s) - 1 /\ Range(RemoveAt(s, j)) = Range(s) \ {e}
    BY <1>5, <1>6, RemoveAtIs, RemoveAtDistinct
  <2> QED BY <2>1, <2>2
<1>9. /\ v.i_size = size /\ v.i_items = t.i_items /\ v.p_nr = t.p_nr
      /\ \A c \in 0..size - 1 : c # b => v.pp_entries[c] = t.pp_entries[c]
      /\ \A k \in Keys : v.p_data[k] = IF k = e THEN NULL ELSE t.p_data[k]
      /\ \A k \in Keys \ Range(s) : v.p_next[k] = t.p_next[k] /\ v.p_prev[k] = t.p_prev[k]
      /\ \A k \in Keys \ Range(age) : v.p_newer[k] = t.p_newer[k]
      /\ Cleared(v, e)
      /\ v.p_nr \in [0..size - 1 -> Nat] /\ v.i_items \in Nat
  BY <1>1, <1>7, TableIs DEF Unlinks
<1>10. Len(age) - 1 \in Nat /\ Len(s) - 1 \in Nat
  BY <1>2, <1>5, <1>6
<1>11. u = [v EXCEPT !.i_items = @ - 1, !.p_nr[b] = @ - 1]
  BY <1>0 DEF Removed
<1>12. [v.p_nr EXCEPT ![b] = @ - 1] \in [0..size - 1 -> Nat] /\ v.i_items - 1 \in Nat
  BY <1>1, <1>3, <1>4, <1>9, <1>10
<1>13. u \in TableOf(size)
  BY <1>7, <1>11, <1>12 DEF TableOf
<1>14. /\ u.i_items = v.i_items - 1 /\ u.p_nr = [v.p_nr EXCEPT ![b] = @ - 1]
       /\ u.pp_entries = v.pp_entries /\ u.p_data = v.p_data
       /\ u.p_next = v.p_next /\ u.p_prev = v.p_prev /\ u.p_newer = v.p_newer
       /\ u.p_older = v.p_older /\ u.p_oldest = v.p_oldest /\ u.p_newest = v.p_newest
       /\ u.i_size = size
  BY <1>7, <1>9, <1>11 DEF TableOf
<1>15. \A k \in Keys : Bucket(u, k) = Bucket(t, k)
  BY <1>13, BucketIs
<1>16. Bucketed(u, Range(now), b)
  <2>1. Chained(u, b, RemoveAt(s, j))
    BY <1>7, <1>14 DEF Chained
  <2>2. u.p_nr[b] = Len(RemoveAt(s, j))
    <3>1. u.p_nr[b] = v.p_nr[b] - 1
      BY <1>3, <1>9, <1>14
    <3> QED BY <1>4, <1>8, <1>9, <3>1
  <2>3. \A k \in Keys : k \in Range(RemoveAt(s, j)) <=> k \in Range(now) /\ Bucket(u, k) = b
    BY <1>4, <1>8, <1>15
  <2> QED BY <2>1, <2>2, <2>3 DEF Bucketed
<1>17. OnlyChain(t, u, Range(age), Range(now), b)
  <2>1. ASSUME NEW c \in 0..size - 1, c # b
        PROVE  u.pp_entries[c] = t.pp_entries[c] /\ u.p_nr[c] = t.p_nr[c]
    BY <1>9, <1>14, <2>1
  <2>2. ASSUME NEW k \in Keys, Bucket(t, k) # b
        PROVE  /\ u.p_next[k] = t.p_next[k] /\ u.p_prev[k] = t.p_prev[k]
               /\ k \in Range(now) <=> k \in Range(age)
    <3>1. k \notin Range(s) /\ k # e
      BY <1>4, <2>2
    <3> QED BY <1>8, <1>9, <1>14, <3>1
  <2> QED BY <1>1, <2>1, <2>2 DEF OnlyChain
<1>18. \A c \in 0..u.i_size - 1 : Bucketed(u, Range(now), c)
  BY <1>1, <1>13, <1>14, <1>16, <1>17, OtherChains
<1>19. Aged(u, now)
  BY <1>7, <1>14 DEF Aged
<1>20. /\ u.i_items = Len(now)
       /\ \A k \in Keys : u.p_data[k] = IF k = e THEN NULL ELSE t.p_data[k]
       /\ \A k \in Keys : u.p_data[k] # NULL <=> k \in Range(now)
  BY <1>1, <1>8, <1>9, <1>14
<1>21. \A k \in Keys \ Range(now) : Cleared(u, k)
  <2> SUFFICES ASSUME NEW k \in Keys, k \notin Range(now) PROVE Cleared(u, k)
    OBVIOUS
  <2>1. CASE k = e
    BY <1>9, <1>14, <2>1 DEF Cleared
  <2>2. CASE k # e
    <3>1. k \notin Range(age) /\ k \notin Range(s)
      BY <1>4, <1>8, <2>2
    <3> QED BY <1>1, <1>9, <1>14, <3>1 DEF Cleared
  <2> QED BY <2>1, <2>2
<1>22. Good(u, now)
  BY ONLY <1>18, <1>19, <1>20, <1>21 DEF Good
<1> QED BY <1>0, <1>13, <1>20, <1>22

(* ght_insert in three parts: k first in its chain, the last of a full     *)
(* bucket out, k newest by age.                                            *)
LinkIn(t, b, k, d) ==
  [t EXCEPT !.p_data[k] = d, !.p_next[k] = t.pp_entries[b],
            !.p_prev = [Set(@, t.pp_entries[b], k) EXCEPT ![k] = NULL],
            !.p_newer[k] = NULL, !.pp_entries[b] = k]

Count(t, b) == [t EXCEPT !.p_nr[b] = @ + 1, !.i_items = @ + 1]

AgeIn(t, k) ==
  [t EXCEPT !.p_oldest = IF @ = NULL THEN k ELSE @,
            !.p_older[k] = t.p_newest,
            !.p_newer = Set(@, t.p_newest, k),
            !.p_newest = k]

(* The steps of an insertion: link in, count or evict, put at the end by age. *)
LEMMA PlaceIs ==
  ASSUME NEW t, NEW k, NEW d, NEW limit, NEW b, b = Bucket(t, k),
         NEW out, out = Evicted(t, k, limit)
  PROVE  Place(t, k, d, limit) =
           AgeIn(IF out = NULL THEN Count(LinkIn(t, b, k, d), b)
                               ELSE Unlink(LinkIn(t, b, k, d), b, out), k)
BY DEF Place, AgeIn, Count, LinkIn, Unlink

(* k is in its chain and counted, but not yet in the list by age.          *)
Half(t, age, k) ==
  /\ Aged(t, age) /\ k \notin Range(age) /\ t.i_items = Len(age) + 1
  /\ \A c \in 0..t.i_size - 1 : Bucketed(t, Range(age) \cup {k}, c)
  /\ \A x \in Keys : t.p_data[x] # NULL <=> x \in Range(age) \cup {k}
  /\ \A x \in Keys \ (Range(age) \cup {k}) : Cleared(t, x)
  /\ t.p_newer[k] = NULL

(* The last step of an insertion makes a half-inserted entry a whole one. *)
LEMMA AgeInGood ==
  ASSUME NEW size \in Positive, NEW t \in TableOf(size), NEW k \in Keys, NEW age, Half(t, age, k)
  PROVE  /\ AgeIn(t, k) \in TableOf(size) /\ Good(AgeIn(t, k), Append(age, k))
         /\ AgeIn(t, k).p_data = t.p_data
<1>0. PICK u, nw, ol, z : /\ u = AgeIn(t, k) /\ nw = t.p_newer /\ ol = t.p_older /\ z = t.p_newest
  OBVIOUS
<1>1. /\ t.i_size = size /\ nw \in Links /\ ol \in Links
      /\ z \in Pointer /\ t.p_oldest \in Pointer /\ k \in Pointer
  BY <1>0, TableIs DEF Pointer
<1>2. /\ List(nw, ol, t.p_oldest, age) /\ z = At(age, Len(age))
  BY <1>0 DEF Half, Aged
<1>3. age \in Seq(Keys) /\ k \notin Range(age) /\ nw[k] = NULL
  BY <1>0, <1>2 DEF Half, List
<1> DEFINE nw2 == Set(nw, z, k)
           ol2 == [ol EXCEPT ![k] = z]
<1>4. nw2 \in Links /\ \A x \in Keys : nw2[x] = IF x = z THEN k ELSE nw[x]
  BY <1>1, SetIs
<1>5. ol2 \in Links /\ \A x \in Keys : ol2[x] = IF x = k THEN z ELSE ol[x]
  BY <1>1 DEF Links
<1>6. u = [t EXCEPT !.p_oldest = IF @ = NULL THEN k ELSE @, !.p_older = ol2,
                    !.p_newer = nw2, !.p_newest = k]
  BY <1>0 DEF AgeIn
<1> HIDE DEF nw2, ol2
<1>7. u \in TableOf(size)
  BY <1>1, <1>4, <1>5, <1>6 DEF TableOf
<1>8. /\ u.p_newer = nw2 /\ u.p_older = ol2 /\ u.p_newest = k
      /\ u.p_oldest = (IF t.p_oldest = NULL THEN k ELSE t.p_oldest)
      /\ u.i_size = size /\ u.i_items = t.i_items /\ u.p_data = t.p_data
      /\ u.pp_entries = t.pp_entries /\ u.p_nr = t.p_nr
      /\ u.p_next = t.p_next /\ u.p_prev = t.p_prev
  BY <1>1, <1>6 DEF TableOf
<1>9. /\ List(nw2, ol2, IF t.p_oldest = NULL THEN k ELSE t.p_oldest, Append(age, k))
      /\ Len(Append(age, k)) = Len(age) + 1 /\ At(Append(age, k), Len(age) + 1) = k
      /\ Range(Append(age, k)) = Range(age) \cup {k}
  BY <1>1, <1>2, <1>3, <1>4, <1>5, ListAppend
<1>10. Aged(u, Append(age, k))
  BY <1>8, <1>9 DEF Aged
<1>11. \A c \in 0..u.i_size - 1 : Bucketed(u, Range(Append(age, k)), c)
  <2> SUFFICES ASSUME NEW c \in 0..size - 1 PROVE Bucketed(u, Range(age) \cup {k}, c)
    BY <1>8, <1>9
  <2>1. Bucketed(t, Range(age) \cup {k}, c)
    BY <1>1 DEF Half
  <2>2. \A x \in Keys : Bucket(u, x) = Bucket(t, x)
    BY <1>7, BucketIs
  <2> QED BY <1>8, <2>1, <2>2 DEF Bucketed, Chained
<1>12. \A x \in Keys : u.p_data[x] # NULL <=> x \in Range(Append(age, k))
  BY <1>8, <1>9 DEF Half
<1>13. \A x \in Keys \ Range(Append(age, k)) : Cleared(u, x)
  <2> SUFFICES ASSUME NEW x \in Keys, x \notin Range(age) \cup {k} PROVE Cleared(u, x)
    BY <1>9
  <2>1. Cleared(t, x)
    BY DEF Half
  <2>2. x # z
    <3>1. z \in Range(age) \cup {NULL}
      BY <1>2, ListEnds
    <3> QED BY <3>1, NullAssumption
  <2> QED BY <1>0, <1>4, <1>8, <2>1, <2>2 DEF Cleared
<1>14. u.i_items = Len(Append(age, k))
  BY <1>8, <1>9 DEF Half
<1>15. Good(u, Append(age, k))
  BY ONLY <1>10, <1>11, <1>12, <1>13, <1>14 DEF Good
<1> QED BY <1>0, <1>7, <1>8, <1>15

(* The first step of an insertion: the entry is in its chain and has its data. *)
LEMMA LinkInIs ==
  ASSUME NEW size \in Positive, NEW t \in TableOf(size), NEW age, Good(t, age),
         NEW k \in Keys, k \notin Range(age), NEW d \in Data, NEW b, b = Bucket(t, k),
         NEW v, v = LinkIn(t, b, k, d), NEW s, s = Chain(t, b)
  PROVE  /\ v \in TableOf(size) /\ v.i_items = t.i_items /\ v.p_nr = t.p_nr
         /\ v.p_data \in [Keys -> Data \cup {NULL}]
         /\ \A x \in Keys : v.p_data[x] = IF x = k THEN d ELSE t.p_data[x]
         /\ v.p_newer = t.p_newer
         /\ Aged(v, age) /\ Chained(v, b, <<k>> \o s)
         /\ Len(<<k>> \o s) = Len(s) + 1 /\ Range(<<k>> \o s) = Range(s) \cup {k}
         /\ \A i \in Int : At(<<k>> \o s, i) = IF i = 1 THEN k ELSE At(s, i - 1)
         /\ \A c \in 0..size - 1 : c # b => v.pp_entries[c] = t.pp_entries[c]
         /\ \A x \in Keys : x \notin Range(s) /\ x # k =>
              v.p_next[x] = t.p_next[x] /\ v.p_prev[x] = t.p_prev[x]
<1>0. PICK nx, pr, p : nx = t.p_next /\ pr = t.p_prev /\ p = t.pp_entries[b]
  OBVIOUS
<1>1. /\ b \in 0..size - 1 /\ t.i_size = size /\ nx \in Links /\ pr \in Links
      /\ t.pp_entries \in [0..size - 1 -> Pointer] /\ t.p_data \in [Keys -> Data \cup {NULL}]
  BY <1>0, TableIs, BucketIs
<1>2. List(nx, pr, p, s) /\ \A x \in Keys : x \in Range(s) <=> x \in Range(age) /\ Bucket(t, x) = b
  BY <1>0, <1>1, GoodIs DEF Chained
<1>3. k \notin Range(s) /\ pr[k] = NULL /\ t.p_newer[k] = NULL
  BY <1>0, <1>2 DEF Good, Cleared
<1>4. p \in Pointer /\ k \in Pointer /\ p # k /\ p \in Range(s) \cup {NULL}
  <2>1. p \in Range(s) \cup {NULL}
    BY <1>2, ListEnds
  <2> QED BY <1>0, <1>1, <1>3, <2>1, NullAssumption DEF Pointer
<1> DEFINE nx2 == [nx EXCEPT ![k] = p]
           pr2 == [Set(pr, p, k) EXCEPT ![k] = NULL]
           nw2 == [t.p_newer EXCEPT ![k] = NULL]
           da2 == [t.p_data EXCEPT ![k] = d]
           pp2 == [t.pp_entries EXCEPT ![b] = k]
<1>5. nx2 \in Links /\ \A x \in Keys : nx2[x] = IF x = k THEN p ELSE nx[x]
  BY <1>1, <1>4 DEF Links
<1>6. pr2 \in Links /\ \A x \in Keys : pr2[x] = IF x = p THEN k ELSE pr[x]
  <2>0. /\ Set(pr, p, k) \in Links
        /\ \A x \in Keys : Set(pr, p, k)[x] = IF x = p THEN k ELSE pr[x]
    BY <1>1, <1>4, SetIs
  <2>1. PICK h : h = Set(pr, p, k)
    OBVIOUS
  <2>2. h \in Links /\ \A x \in Keys : h[x] = IF x = p THEN k ELSE pr[x]
    BY ONLY <2>0, <2>1
  <2>3. pr2 = [h EXCEPT ![k] = NULL] /\ NULL \in Pointer
    BY <2>1 DEF Pointer
  <2>4. k \in Keys /\ k # p /\ pr[k] = NULL
    BY <1>3, <1>4
  <2>5. pr2 \in Links /\ \A x \in Keys : pr2[x] = IF x = k THEN NULL ELSE h[x]
    <3> HIDE DEF pr2
    <3> QED BY ONLY <2>2, <2>3, <2>4 DEF Links
  <2> QED BY <2>2, <2>4, <2>5
<1>a. nw2 = t.p_newer
  <2>1. t.p_newer \in Links
    BY TableIs
  <2> QED BY <1>3, <2>1 DEF Links
<1>7. /\ da2 \in [Keys -> Data \cup {NULL}]
      /\ \A x \in Keys : da2[x] = IF x = k THEN d ELSE t.p_data[x]
  BY <1>1
<1>8. /\ pp2 \in [0..size - 1 -> Pointer] /\ pp2[b] = k
      /\ \A c \in 0..size - 1 : c # b => pp2[c] = t.pp_entries[c]
  BY <1>1, <1>4
<1>9. v = [t EXCEPT !.p_data = da2, !.p_next = nx2, !.p_prev = pr2, !.p_newer = nw2,
                    !.pp_entries = pp2]
  BY <1>0 DEF LinkIn
<1> HIDE DEF nx2, pr2, nw2, da2, pp2
<1>10. v \in TableOf(size)
  <2>1. /\ nx2 \in Links /\ pr2 \in Links /\ da2 \in [Keys -> Data \cup {NULL}]
        /\ pp2 \in [0..size - 1 -> Pointer] /\ nw2 \in Links
    BY <1>5, <1>6, <1>a, <1>7, <1>8, TableIs
  <2>2. t \in TableOf(size)
    OBVIOUS
  <2> QED BY ONLY <1>9, <2>1, <2>2 DEF TableOf
<1>11. /\ v.p_data = da2 /\ v.p_next = nx2 /\ v.p_prev = pr2 /\ v.pp_entries = pp2
       /\ v.i_items = t.i_items /\ v.p_nr = t.p_nr
       /\ v.p_newer = t.p_newer /\ v.p_older = t.p_older
       /\ v.p_oldest = t.p_oldest /\ v.p_newest = t.p_newest
  BY <1>9, <1>a DEF TableOf
<1>12. Aged(v, age)
  BY <1>11 DEF Good, Aged
<1>13. \A x \in Keys : pr2[x] = IF x = k THEN NULL ELSE IF x = p THEN k ELSE pr[x]
  BY <1>3, <1>4, <1>6
<1>14. /\ List(nx2, pr2, k, <<k>> \o s) /\ Len(<<k>> \o s) = Len(s) + 1
       /\ Range(<<k>> \o s) = Range(s) \cup {k}
       /\ \A i \in Int : At(<<k>> \o s, i) = IF i = 1 THEN k ELSE At(s, i - 1)
  <2>1. nx \in Links /\ pr \in Links /\ nx2 \in Links /\ pr2 \in Links /\ k \in Keys
    BY <1>1, <1>5, <1>6
  <2> QED BY ONLY <1>2, <1>3, <1>5, <1>13, <2>1, ListPrepend
<1>15. Chained(v, b, <<k>> \o s)
  BY <1>8, <1>11, <1>14 DEF Chained
<1>16. \A x \in Keys : x \notin Range(s) /\ x # k =>
              v.p_next[x] = t.p_next[x] /\ v.p_prev[x] = t.p_prev[x]
  BY <1>0, <1>4, <1>5, <1>6, <1>11, NullAssumption
<1> QED BY <1>7, <1>8, <1>10, <1>11, <1>12, <1>14, <1>15, <1>16

(* The second step in a bucket that has room: the entry is counted. *)
LEMMA CountHalf ==
  ASSUME NEW size \in Positive, NEW t \in TableOf(size), NEW age, Good(t, age),
         NEW k \in Keys, k \notin Range(age), NEW d \in Data, NEW b, b = Bucket(t, k)
  PROVE  /\ Count(LinkIn(t, b, k, d), b) \in TableOf(size)
         /\ Half(Count(LinkIn(t, b, k, d), b), age, k)
         /\ Count(LinkIn(t, b, k, d), b).p_data = LinkIn(t, b, k, d).p_data
<1>0. PICK v, u, s : v = LinkIn(t, b, k, d) /\ u = Count(v, b) /\ s = Chain(t, b)
  OBVIOUS
<1>1. /\ v \in TableOf(size) /\ v.i_items = t.i_items /\ v.p_nr = t.p_nr
      /\ \A x \in Keys : v.p_data[x] = IF x = k THEN d ELSE t.p_data[x]
      /\ v.p_newer = t.p_newer
      /\ Aged(v, age) /\ Chained(v, b, <<k>> \o s)
      /\ Len(<<k>> \o s) = Len(s) + 1 /\ Range(<<k>> \o s) = Range(s) \cup {k}
      /\ \A c \in 0..size - 1 : c # b => v.pp_entries[c] = t.pp_entries[c]
      /\ \A x \in Keys : x \notin Range(s) /\ x # k =>
           v.p_next[x] = t.p_next[x] /\ v.p_prev[x] = t.p_prev[x]
  BY <1>0, LinkInIs
<1>2. b \in 0..size - 1 /\ t.i_size = size
  BY BucketIs, TableIs
<1>3. /\ t.p_nr[b] = Len(s)
      /\ \A x \in Keys : x \in Range(s) <=> x \in Range(age) /\ Bucket(t, x) = b
  BY <1>0, <1>2, GoodIs
<1>4. v.p_nr \in [0..size - 1 -> Nat] /\ v.i_items \in Nat
  BY <1>1, TableIs
<1>5. u = [v EXCEPT !.p_nr[b] = @ + 1, !.i_items = @ + 1]
  BY <1>0 DEF Count
<1>6. [v.p_nr EXCEPT ![b] = @ + 1] \in [0..size - 1 -> Nat] /\ v.i_items + 1 \in Nat
  <2>1. PICK nr : nr = v.p_nr
    OBVIOUS
  <2>2. nr \in [0..size - 1 -> Nat] /\ b \in 0..size - 1
    BY <1>2, <1>4, <2>1
  <2>3. [nr EXCEPT ![b] = @ + 1] \in [0..size - 1 -> Nat]
    BY ONLY <2>2
  <2> QED BY <1>4, <2>1, <2>3
<1>7. u \in TableOf(size)
  BY <1>1, <1>5, <1>6 DEF TableOf
<1>8. /\ u.i_items = v.i_items + 1 /\ u.p_nr = [v.p_nr EXCEPT ![b] = @ + 1]
      /\ u.pp_entries = v.pp_entries /\ u.p_data = v.p_data
      /\ u.p_next = v.p_next /\ u.p_prev = v.p_prev /\ u.p_newer = v.p_newer
      /\ u.p_older = v.p_older /\ u.p_oldest = v.p_oldest /\ u.p_newest = v.p_newest
      /\ u.i_size = size
  BY <1>1, <1>2, <1>5 DEF TableOf, LinkIn
<1>9. \A x \in Keys : Bucket(u, x) = Bucket(t, x)
  BY <1>7, BucketIs
<1>10. Bucketed(u, Range(age) \cup {k}, b)
  <2>1. Chained(u, b, <<k>> \o s)
    BY <1>1, <1>8 DEF Chained
  <2>2. u.p_nr[b] = Len(<<k>> \o s)
    <3>1. u.p_nr[b] = v.p_nr[b] + 1
      BY <1>2, <1>4, <1>8
    <3> QED BY <1>1, <1>3, <3>1
  <2>3. \A x \in Keys : x \in Range(<<k>> \o s) <=> x \in Range(age) \cup {k} /\ Bucket(u, x) = b
    BY <1>1, <1>3, <1>9
  <2> QED BY <2>1, <2>2, <2>3 DEF Bucketed
<1>11. OnlyChain(t, u, Range(age), Range(age) \cup {k}, b)
  BY <1>1, <1>2, <1>3, <1>4, <1>8 DEF OnlyChain
<1>12. \A c \in 0..u.i_size - 1 : Bucketed(u, Range(age) \cup {k}, c)
  <2> SUFFICES ASSUME NEW c \in 0..size - 1, c # b PROVE Bucketed(u, Range(age) \cup {k}, c)
    BY <1>8, <1>10
  <2>1. Bucketed(t, Range(age), c)
    BY <1>2 DEF Good
  <2> QED BY <1>7, <1>11, <2>1, OtherChains
<1>13. Aged(u, age)
  BY <1>1, <1>8 DEF Aged
<1>14. \A x \in Keys : u.p_data[x] # NULL <=> x \in Range(age) \cup {k}
  BY <1>1, <1>8, NullAssumption DEF Good
<1>15. \A x \in Keys \ (Range(age) \cup {k}) : Cleared(u, x)
  BY <1>1, <1>3, <1>8 DEF Good, Cleared
<1>16. u.i_items = Len(age) + 1 /\ u.p_newer[k] = NULL
  BY <1>1, <1>8 DEF Good, Cleared
<1>17. Half(u, age, k)
  BY <1>12, <1>13, <1>14, <1>15, <1>16 DEF Half
<1> QED BY <1>0, <1>7, <1>8, <1>17

(* The second step in a full bucket: the last entry of the chain goes, the count stays. *)
LEMMA EvictHalf ==
  ASSUME NEW size \in Positive, NEW t \in TableOf(size), NEW age, Good(t, age),
         NEW k \in Keys, k \notin Range(age), NEW d \in Data, NEW b, b = Bucket(t, k),
         NEW out \in Range(Chain(t, b)), out = Last(Chain(t, b)),
         NEW i \in 1..Len(age), age[i] = out
  PROVE  /\ Unlink(LinkIn(t, b, k, d), b, out) \in TableOf(size)
         /\ Half(Unlink(LinkIn(t, b, k, d), b, out), RemoveAt(age, i), k)
         /\ \A x \in Keys : Unlink(LinkIn(t, b, k, d), b, out).p_data[x] =
              IF x = out THEN NULL ELSE LinkIn(t, b, k, d).p_data[x]
<1>0. PICK v, u, s, r, now : /\ v = LinkIn(t, b, k, d) /\ u = Unlink(v, b, out)
                             /\ s = Chain(t, b) /\ r = <<k>> \o s /\ now = RemoveAt(age, i)
  OBVIOUS
<1>1. /\ v \in TableOf(size) /\ v.i_items = t.i_items /\ v.p_nr = t.p_nr
      /\ \A x \in Keys : v.p_data[x] = IF x = k THEN d ELSE t.p_data[x]
      /\ v.p_newer = t.p_newer
      /\ Aged(v, age) /\ Chained(v, b, r)
      /\ Len(r) = Len(s) + 1 /\ Range(r) = Range(s) \cup {k}
      /\ \A m \in Int : At(r, m) = IF m = 1 THEN k ELSE At(s, m - 1)
      /\ \A c \in 0..size - 1 : c # b => v.pp_entries[c] = t.pp_entries[c]
      /\ \A x \in Keys : x \notin Range(s) /\ x # k =>
           v.p_next[x] = t.p_next[x] /\ v.p_prev[x] = t.p_prev[x]
  BY <1>0, LinkInIs
<1>2. b \in 0..size - 1 /\ t.i_size = size
  BY BucketIs, TableIs
<1>3. /\ t.p_nr[b] = Len(s) /\ Chained(t, b, s)
      /\ \A x \in Keys : x \in Range(s) <=> x \in Range(age) /\ Bucket(t, x) = b
  BY <1>0, <1>2, GoodIs
<1>4. /\ s \in Seq(Keys) /\ Len(s) \in Nat /\ out \in Keys /\ out \in Range(age)
      /\ r \in Seq(Keys) /\ Distinct(r) /\ age \in Seq(Keys) /\ Distinct(age) /\ Len(age) \in Nat
      /\ out # k
  <2>1. s \in Seq(Keys) /\ r \in Seq(Keys) /\ Distinct(r) /\ age \in Seq(Keys) /\ Distinct(age)
    BY <1>1, <1>3 DEF Chained, Aged, List
  <2> QED BY <1>0, <1>3, <2>1, RangeIs, AtIs
<1>5. PICK j \in 1..Len(r) : j = Len(s) + 1 /\ r[j] = out
  <2>1. Len(s) # 0
    BY <1>0, <1>4, RangeIs
  <2>2. Len(s) + 1 \in 1..Len(r) /\ Len(s) + 1 # 1 /\ Len(s) + 1 - 1 = Len(s)
    BY <1>1, <1>4, <2>1
  <2>3. At(r, Len(s) + 1) = At(s, Len(s))
    BY <1>1, <2>2
  <2>4. At(s, Len(s)) = s[Len(s)] /\ At(r, Len(s) + 1) = r[Len(s) + 1]
    BY <1>4, <2>1, <2>2 DEF At
  <2> QED BY <1>0, <2>2, <2>3, <2>4 DEF Last
<1>6. /\ u \in TableOf(size) /\ Aged(u, now) /\ Chained(u, b, RemoveAt(r, j))
      /\ Unlinks(v, u, b, r, age, out)
  <2>1. out = age[i] /\ out = r[j] /\ v \in TableOf(size) /\ Aged(v, age) /\ Chained(v, b, r)
    BY <1>1, <1>5
  <2>2. /\ Unlink(v, b, out) \in TableOf(size)
        /\ Aged(Unlink(v, b, out), RemoveAt(age, i))
        /\ Chained(Unlink(v, b, out), b, RemoveAt(r, j))
        /\ Unlinks(v, Unlink(v, b, out), b, r, age, out)
    BY <1>2, <2>1, Unlinked
  <2> QED BY <1>0, <2>2
<1>7. Len(now) = Len(age) - 1 /\ Range(now) = Range(age) \ {out}
  <2>1. Len(RemoveAt(age, i)) = Len(age) - 1
    BY <1>4, RemoveAtIs
  <2>2. Range(RemoveAt(age, i)) = Range(age) \ {age[i]}
    BY <1>4, RemoveAtDistinct
  <2> QED BY <1>0, <2>1, <2>2
<1>8. Len(RemoveAt(r, j)) = Len(r) - 1 /\ Range(RemoveAt(r, j)) = Range(r) \ {out}
  BY <1>4, <1>5, RemoveAtIs, RemoveAtDistinct
<1>9. /\ u.i_items = t.i_items /\ u.p_nr = t.p_nr /\ u.i_size = size
      /\ \A c \in 0..size - 1 : c # b => u.pp_entries[c] = t.pp_entries[c]
      /\ \A x \in Keys : u.p_data[x] = IF x = out THEN NULL ELSE v.p_data[x]
      /\ \A x \in Keys \ Range(r) : u.p_next[x] = v.p_next[x] /\ u.p_prev[x] = v.p_prev[x]
      /\ \A x \in Keys \ Range(age) : u.p_newer[x] = t.p_newer[x]
      /\ Cleared(u, out)
  <2>1. v.i_size = size /\ u.i_size = size
    BY <1>1, <1>6, TableIs
  <2> QED BY <1>1, <1>6, <2>1 DEF Unlinks
<1>10. \A x \in Keys : Bucket(u, x) = Bucket(t, x)
  BY <1>6, BucketIs
<1>11. Bucketed(u, Range(now) \cup {k}, b)
  <2>1. u.p_nr[b] = Len(RemoveAt(r, j))
    BY <1>1, <1>3, <1>4, <1>8, <1>9
  <2>2. \A x \in Keys :
          x \in Range(RemoveAt(r, j)) <=> x \in Range(now) \cup {k} /\ Bucket(u, x) = b
    BY <1>1, <1>3, <1>4, <1>7, <1>8, <1>10
  <2> QED BY <1>6, <2>1, <2>2 DEF Bucketed
<1>12. OnlyChain(t, u, Range(age), Range(now) \cup {k}, b)
  <2> SUFFICES ASSUME NEW x \in Keys, Bucket(t, x) # b
               PROVE  /\ u.p_next[x] = t.p_next[x] /\ u.p_prev[x] = t.p_prev[x]
                      /\ x \in Range(now) \cup {k} <=> x \in Range(age)
    BY <1>2, <1>9 DEF OnlyChain
  <2>1. x \notin Range(s) /\ x # k /\ x # out
    BY <1>0, <1>3
  <2>2. x \notin Range(r)
    BY <1>1, <2>1
  <2> QED BY <1>1, <1>7, <1>9, <2>1, <2>2
<1>13. \A c \in 0..u.i_size - 1 : Bucketed(u, Range(now) \cup {k}, c)
  <2> SUFFICES ASSUME NEW c \in 0..size - 1, c # b PROVE Bucketed(u, Range(now) \cup {k}, c)
    BY <1>9, <1>11
  <2>1. Bucketed(t, Range(age), c)
    BY <1>2 DEF Good
  <2> QED BY <1>6, <1>12, <2>1, OtherChains
<1>14. \A x \in Keys : u.p_data[x] # NULL <=> x \in Range(now) \cup {k}
  <2> SUFFICES ASSUME NEW x \in Keys
               PROVE  u.p_data[x] # NULL <=> x \in Range(now) \cup {k}
    OBVIOUS
  <2>1. t.p_data[x] # NULL <=> x \in Range(age)
    BY DEF Good
  <2>2. /\ u.p_data[x] = IF x = out THEN NULL ELSE v.p_data[x]
        /\ v.p_data[x] = IF x = k THEN d ELSE t.p_data[x]
    BY <1>1, <1>9
  <2>3. x \in Range(now) <=> x \in Range(age) /\ x # out
    BY <1>7
  <2>4. d # NULL /\ out # k
    BY <1>4, NullAssumption
  <2>5. CASE x = out
    BY <2>2, <2>3, <2>4, <2>5
  <2>6. CASE x = k
    BY <2>2, <2>4, <2>6
  <2>7. CASE x # out /\ x # k
    BY <2>1, <2>2, <2>3, <2>7
  <2> QED BY <2>5, <2>6, <2>7
<1>15. \A x \in Keys \ (Range(now) \cup {k}) : Cleared(u, x)
  <2> SUFFICES ASSUME NEW x \in Keys, x \notin Range(now), x # k, x # out PROVE Cleared(u, x)
    BY <1>9
  <2>1. x \notin Range(age) /\ x \notin Range(r) /\ x \notin Range(s)
    BY <1>1, <1>3, <1>7
  <2>2. Cleared(t, x)
    BY <2>1 DEF Good
  <2> QED BY <1>1, <1>9, <2>1, <2>2 DEF Cleared
<1>16. u.i_items = Len(now) + 1 /\ u.p_newer[k] = NULL /\ k \notin Range(now)
  <2>1. t.i_items = Len(age) /\ Cleared(t, k)
    BY DEF Good
  <2>2. Len(age) - 1 + 1 = Len(age)
    BY <1>4
  <2> QED BY <1>7, <1>9, <2>1, <2>2 DEF Cleared
<1>17. Half(u, now, k)
  BY <1>6, <1>13, <1>14, <1>15, <1>16 DEF Half
<1> QED BY <1>0, <1>6, <1>9, <1>17

(* The list by age once k is inserted. *)
Inserted(age, k, out, now) ==
  IF out = NULL THEN now = Append(age, k)
  ELSE \E i \in 1..Len(age) : age[i] = out /\ now = Append(RemoveAt(age, i), k)

(* An insertion of a key that is not there, with what it evicts. *)
LEMMA PlaceGood ==
  ASSUME NEW size \in Positive, NEW t \in TableOf(size), NEW age, Good(t, age),
         NEW k \in Keys, k \notin Range(age), NEW d \in Data, NEW limit \in Nat,
         NEW out, out = Evicted(t, k, limit)
  PROVE  /\ Place(t, k, d, limit) \in TableOf(size)
         /\ \E now : Good(Place(t, k, d, limit), now) /\ Inserted(age, k, out, now)
         /\ \A x \in Keys : Place(t, k, d, limit).p_data[x] =
              IF x = k THEN d ELSE IF x = out THEN NULL ELSE t.p_data[x]
<1>0. PICK b, v, s, w : /\ b = Bucket(t, k) /\ v = LinkIn(t, b, k, d) /\ s = Chain(t, b)
                        /\ w = Place(t, k, d, limit)
  OBVIOUS
<1>1. w = AgeIn(IF out = NULL THEN Count(v, b) ELSE Unlink(v, b, out), k)
  <2>1. Place(t, k, d, limit) =
          AgeIn(IF out = NULL THEN Count(LinkIn(t, b, k, d), b)
                              ELSE Unlink(LinkIn(t, b, k, d), b, out), k)
    BY <1>0, PlaceIs
  <2> QED BY <1>0, <2>1
<1>2. \A x \in Keys : v.p_data[x] = IF x = k THEN d ELSE t.p_data[x]
  <2>1. v.p_data = [t.p_data EXCEPT ![k] = d]
    BY <1>0 DEF LinkIn, TableOf
  <2> QED BY <2>1, TableIs
<1>3. CASE out = NULL
  <2>1. PICK u : u = Count(v, b)
    OBVIOUS
  <2>2. u \in TableOf(size) /\ Half(u, age, k) /\ u.p_data = v.p_data
    BY <1>0, <2>1, CountHalf
  <2>3. /\ w \in TableOf(size) /\ Good(w, Append(age, k)) /\ w.p_data = u.p_data
    BY <1>1, <1>3, <2>1, <2>2, AgeInGood
  <2> QED BY <1>0, <1>2, <1>3, <2>2, <2>3, NullAssumption DEF Inserted
<1>4. CASE out # NULL
  <2>1. PICK u : u = Unlink(v, b, out)
    OBVIOUS
  <2>2. b \in 0..size - 1
    BY <1>0, BucketIs
  <2>3. /\ Chained(t, b, Chain(t, b)) /\ t.p_nr[b] = Len(Chain(t, b))
        /\ \A x \in Keys : x \in Range(Chain(t, b)) <=> x \in Range(age) /\ Bucket(t, x) = b
    BY <2>2, GoodIs
  <2>4. out = Last(Chain(t, b)) /\ limit # 0 /\ t.p_nr[b] >= limit
    BY <1>0, <1>4 DEF Evicted
  <2>5. out \in Range(Chain(t, b))
    <3>1. Chain(t, b) \in Seq(Keys)
      BY <2>3 DEF Chained, List
    <3>2. Len(Chain(t, b)) \in 1..Len(Chain(t, b))
      BY <2>3, <2>4, <3>1, AtIs
    <3> QED BY <2>4, <3>1, <3>2, RangeIs DEF Last
  <2>6. age \in Seq(Keys)
    BY DEF Good, Aged, List
  <2>7. PICK i \in 1..Len(age) : age[i] = out
    <3>1. Range(Chain(t, b)) \subseteq Keys
      BY <2>3, RangeIs DEF Chained, List
    <3>2. out \in Range(age)
      BY <2>3, <2>5, <3>1
    <3> QED BY <2>6, <3>2, RangeIs
  <2>8. /\ u \in TableOf(size) /\ Half(u, RemoveAt(age, i), k)
        /\ \A x \in Keys : u.p_data[x] = IF x = out THEN NULL ELSE v.p_data[x]
    BY <1>0, <2>1, <2>4, <2>5, <2>7, EvictHalf
  <2>9. /\ w \in TableOf(size) /\ Good(w, Append(RemoveAt(age, i), k)) /\ w.p_data = u.p_data
    BY <1>1, <1>4, <2>1, <2>8, AgeInGood
  <2>10. k # out
    BY <2>6, <2>7, RangeIs
  <2>11. Inserted(age, k, out, Append(RemoveAt(age, i), k))
    BY <1>4, <2>7 DEF Inserted
  <2> QED BY <1>0, <1>2, <2>8, <2>9, <2>10, <2>11
<1> QED BY <1>3, <1>4

(***************************************************************************)
(* Folds.  FoldLeft takes the last position of each set of positions; the  *)
(* lemmas show that its values are those of a loop.                        *)
(***************************************************************************)
LEMMA MaxIs ==
  ASSUME NEW n \in Nat, NEW s \in SUBSET (1..n), s # {}
  PROVE  Max(s) \in s /\ \A x \in s : x <= Max(s)
<1> DEFINE T == {n - x : x \in s}
<1>1. T \in SUBSET Nat /\ T # {}
  <2>1. \A x \in s : x \in 1..n /\ n - x \in Nat
    OBVIOUS
  <2> QED BY <2>1
<1>2. PICK y \in T : \A z \in T : y <= z
  BY <1>1, Smallest
<1>3. PICK m \in s : y = n - m
  BY <1>2
<1>4. \A x \in s : m >= x
  <2> SUFFICES ASSUME NEW x \in s PROVE m >= x
    OBVIOUS
  <2>1. n - m <= n - x
    BY <1>2, <1>3
  <2> QED BY <2>1
<1>5. Max(s) \in s /\ \A x \in s : Max(s) >= x
  BY <1>4 DEF Max
<1> QED BY <1>5

(* The prefixes of 1..n and their maxima. *)
LEMMA UpToIs ==
  ASSUME NEW n \in Nat, NEW i \in 1..n
  PROVE  /\ 1..i \in SUBSET (1..n) /\ 1..i # {} /\ Max(1..i) = i /\ (1..i) \ {i} = 1..(i - 1)
<1>0. PICK p : p = 1..i
  OBVIOUS
<1>1. p \in SUBSET (1..i) /\ p # {} /\ i \in Nat /\ 1..i \in SUBSET (1..n)
  BY <1>0
<1>2. Max(p) \in p /\ \A x \in p : x <= Max(p)
  BY <1>1, MaxIs
<1>3. Max(p) = i
  BY <1>0, <1>2
<1>4. (1..i) \ {i} = 1..(i - 1)
  OBVIOUS
<1> QED BY <1>0, <1>1, <1>3, <1>4

(* w[s] is what the steps g at the positions of s make of base. *)
Folding(base, g, D, w) ==
  \A s \in SUBSET D : w[s] = IF s = {} THEN base ELSE g[Max(s)][w[s \ {Max(s)}]]

(* A fold over a range has a table of its intermediate values. *)
LEMMA FoldingExists ==
  ASSUME NEW X, NEW base \in X, NEW n \in Nat, NEW g \in [1..n -> [X -> X]]
  PROVE  \E w \in [SUBSET (1..n) -> X] : Folding(base, g, 1..n, w)
<1> DEFINE P(m) == \E w \in [SUBSET (1..m) -> X] : Folding(base, g, 1..m, w)
           I == {m \in Nat : m <= n => P(m)}
<1>1. P(0)
  <2> DEFINE w == [s \in SUBSET (1..0) |-> base]
  <2>1. \A s \in SUBSET (1..0) : s = {}
    OBVIOUS
  <2>2. w \in [SUBSET (1..0) -> X] /\ \A s \in SUBSET (1..0) : w[s] = base
    OBVIOUS
  <2> HIDE DEF w
  <2>3. Folding(base, g, 1..0, w)
    BY <2>1, <2>2 DEF Folding
  <2> QED BY <2>2, <2>3
<1>2. ASSUME NEW m \in Nat, P(m), m + 1 <= n PROVE P(m + 1)
  <2>1. PICK w \in [SUBSET (1..m) -> X] : Folding(base, g, 1..m, w)
    BY <1>2
  <2> DEFINE Next1(s) == IF s = {} THEN base ELSE g[Max(s)][w[s \ {Max(s)}]]
             d == [s \in SUBSET (1..m + 1) |-> Next1(s)]
  <2>2. ASSUME NEW s \in SUBSET (1..m + 1), s # {}
        PROVE  Max(s) \in 1..n /\ s \ {Max(s)} \in SUBSET (1..m)
    <3>1. Max(s) \in s /\ \A x \in s : x <= Max(s)
      <4>1. m + 1 \in Nat
        OBVIOUS
      <4> QED BY <2>2, <4>1, MaxIs
    <3>2. \A x \in s : x \in 1..m + 1 /\ (x # Max(s) => x \in 1..m)
      <4> SUFFICES ASSUME NEW x \in s PROVE x \in 1..m + 1 /\ (x # Max(s) => x \in 1..m)
        OBVIOUS
      <4>1. x \in 1..m + 1 /\ Max(s) \in 1..m + 1 /\ x <= Max(s)
        BY <3>1
      <4> QED BY <4>1
    <3>3. Max(s) \in 1..m + 1
      BY <3>1, <3>2
    <3>4. Max(s) \in 1..n
      BY <1>2, <3>3
    <3>5. s \ {Max(s)} \in SUBSET (1..m)
      BY <3>2
    <3> QED BY <3>4, <3>5
  <2>3. \A s \in SUBSET (1..m + 1) : Next1(s) \in X
    BY <2>2
  <2>4. d \in [SUBSET (1..m + 1) -> X] /\ \A s \in SUBSET (1..m + 1) : d[s] = Next1(s)
    BY <2>3
  <2> HIDE DEF d
  <2>5. \A s \in SUBSET (1..m) : s \in SUBSET (1..m + 1)
    OBVIOUS
  <2>6. \A s \in SUBSET (1..m) : d[s] = w[s]
    BY <2>1, <2>4, <2>5 DEF Folding
  <2>7. ASSUME NEW s \in SUBSET (1..m + 1)
        PROVE  d[s] = IF s = {} THEN base ELSE g[Max(s)][d[s \ {Max(s)}]]
    BY <2>2, <2>4, <2>6
  <2>8. Folding(base, g, 1..m + 1, d)
    BY <2>7 DEF Folding
  <2> QED BY <2>4, <2>8
<1> HIDE DEF P
<1>3. 0 \in I /\ \A m \in Nat : m \in I => m + 1 \in I
  BY <1>1, <1>2
<1> HIDE DEF I
<1>4. n \in I
  BY <1>3, Induction
<1>5. P(n)
  BY <1>4 DEF I
<1> QED BY <1>5 DEF P

(* What holds of the first value of a loop and is kept holds of all. *)
LEMMA LoopType ==
  ASSUME NEW X, NEW n \in Nat, NEW v, v[0] \in X,
         \A i \in 1..n : v[i - 1] \in X => v[i] \in X
  PROVE  \A i \in 0..n : v[i] \in X
<1> DEFINE I == {i \in Nat : i <= n => v[i] \in X}
<1>1. 0 \in I
  OBVIOUS
<1>2. ASSUME NEW i \in Nat, i \in I PROVE i + 1 \in I
  <2> SUFFICES ASSUME i + 1 <= n PROVE v[i + 1] \in X
    OBVIOUS
  <2>1. i + 1 \in 1..n /\ i + 1 - 1 = i /\ i <= n
    OBVIOUS
  <2>2. v[i] \in X
    BY <1>2, <2>1
  <2> QED BY <2>1, <2>2
<1> HIDE DEF I
<1>3. Nat \subseteq I
  BY <1>1, <1>2, Induction
<1> QED BY <1>3 DEF I

-----------------------------------------------------------------------------
(* Freeing. *)

(* Freeing an entry clears its own data and links and no others. *)
LEMMA FinalizeType ==
  ASSUME NEW size, NEW t \in TableOf(size), NEW e \in Keys
  PROVE  /\ Finalize(t, e) \in TableOf(size) /\ Finalize(t, e).pp_entries = t.pp_entries
         /\ Finalize(t, e).p_data[e] = NULL
         /\ \A k \in Keys : /\ Finalize(t, e).p_data[k] \in {NULL, t.p_data[k]}
                            /\ k # e => /\ Finalize(t, e).p_data[k] = t.p_data[k]
                                        /\ Finalize(t, e).p_next[k] = t.p_next[k]
                                        /\ Finalize(t, e).p_prev[k] = t.p_prev[k]
<1>0. PICK u : u = Finalize(t, e)
  OBVIOUS
<1> DEFINE Off(f) == [f EXCEPT ![e] = NULL]
<1>1. u = [t EXCEPT !.p_data = Off(t.p_data), !.p_next = Off(t.p_next), !.p_prev = Off(t.p_prev),
                    !.p_older = Off(t.p_older), !.p_newer = Off(t.p_newer)]
  BY <1>0 DEF Finalize
<1>2. \A f \in Links : Off(f) \in Links
  BY DEF Links, Pointer
<1>3. t.p_data \in [Keys -> Data \cup {NULL}] /\ Off(t.p_data) \in [Keys -> Data \cup {NULL}]
  BY TableIs
<1>4. t.p_next \in Links /\ t.p_prev \in Links /\ t.p_older \in Links /\ t.p_newer \in Links
  BY TableIs
<1>5. u \in TableOf(size)
  BY <1>1, <1>2, <1>3, <1>4 DEF TableOf
<1>6. /\ u.p_data = Off(t.p_data) /\ u.p_next = Off(t.p_next) /\ u.p_prev = Off(t.p_prev)
      /\ u.pp_entries = t.pp_entries
  BY <1>1 DEF TableOf
<1>7. u.p_data[e] = NULL
  BY <1>3, <1>6
<1>8. \A k \in Keys : /\ u.p_data[k] \in {NULL, t.p_data[k]}
                      /\ k # e => /\ u.p_data[k] = t.p_data[k]
                                  /\ u.p_next[k] = t.p_next[k]
                                  /\ u.p_prev[k] = t.p_prev[k]
  BY <1>3, <1>4, <1>6 DEF Links
<1> QED BY <1>0, <1>5, <1>6, <1>7, <1>8

Freeing(size, t, s, v) ==
  /\ v \in [0..Len(s) -> TableOf(size)]
  /\ v[0] = t /\ v[Len(s)] = FoldLeft(Finalize, t, s)
  /\ \A i \in 1..Len(s) : v[i] = Finalize(v[i - 1], s[i])

(* The loop that frees the entries of a chain, one after the other. *)
LEMMA FreeingLoop ==
  ASSUME NEW size, NEW t \in TableOf(size), NEW s \in Seq(Keys)
  PROVE  \E v : Freeing(size, t, s, v)
<1>0. PICK X, n : X = TableOf(size) /\ n = Len(s)
  OBVIOUS
<1>1. n \in Nat /\ DOMAIN s = 1..n /\ \A i \in 1..n : s[i] \in Keys
  BY <1>0, LenProperties
<1> DEFINE g == [i \in 1..n |-> [x \in X |-> Finalize(x, s[i])]]
           F(w) == [p \in SUBSET (1..n) |->
                      IF p = {} THEN t ELSE Finalize(w[p \ {Max(p)}], s[Max(p)])]
           c == CHOOSE w : w = F(w)
<1>2. FoldLeft(Finalize, t, s) = c[1..n]
  BY <1>1 DEF FoldLeft, MapThenFoldSet
<1>3. \A i \in 1..n, x \in X : Finalize(x, s[i]) \in X
  BY <1>0, <1>1, FinalizeType
<1>4. g \in [1..n -> [X -> X]] /\ \A i \in 1..n, x \in X : g[i][x] = Finalize(x, s[i])
  BY <1>3
<1> HIDE DEF g
<1>5. PICK w \in [SUBSET (1..n) -> X] : Folding(t, g, 1..n, w)
  BY <1>0, <1>1, <1>4, FoldingExists
<1>6. \A p \in SUBSET (1..n) : p # {} => Max(p) \in 1..n /\ p \ {Max(p)} \in SUBSET (1..n)
  BY <1>1, MaxIs
<1>7. w = F(w)
  BY <1>4, <1>5, <1>6 DEF Folding
<1>8. c = F(c)
  BY <1>7
<1>9. \A p \in SUBSET (1..n) : c[p] = IF p = {} THEN t ELSE Finalize(c[p \ {Max(p)}], s[Max(p)])
  BY <1>8
<1> HIDE DEF c, F
<1> DEFINE v == [i \in 0..n |-> c[1..i]]
<1>10. DOMAIN v = 0..n /\ v = [i \in 0..n |-> v[i]] /\ v[n] = c[1..n] /\ v[0] = c[1..0]
  BY <1>1
<1>11. v[0] = t
  <2>1. 1..0 = {} /\ 1..0 \in SUBSET (1..n)
    OBVIOUS
  <2> QED BY <1>9, <1>10, <2>1
<1>12. ASSUME NEW i \in 1..n PROVE v[i] = Finalize(v[i - 1], s[i])
  <2>1. PICK p : p = 1..i
    OBVIOUS
  <2>2. p \in SUBSET (1..n) /\ p # {} /\ Max(p) = i /\ p \ {i} = 1..(i - 1)
    BY <1>1, <2>1, UpToIs
  <2>3. c[p] = Finalize(c[1..(i - 1)], s[i])
    BY <1>9, <2>2
  <2>4. v[i] = c[p] /\ v[i - 1] = c[1..(i - 1)]
    <3>1. i \in 0..n /\ i - 1 \in 0..n
      BY <1>1
    <3>2. v[i] = c[1..i]
      BY <3>1
    <3>3. v[i - 1] = c[1..(i - 1)]
      BY <3>1
    <3> QED BY <2>1, <3>2, <3>3
  <2> QED BY <2>3, <2>4
<1> HIDE DEF v
<1>13. \A i \in 1..n : v[i - 1] \in X => v[i] \in X
  BY <1>3, <1>12
<1>14. \A i \in 0..n : v[i] \in X
  BY <1>0, <1>1, <1>11, <1>13, LoopType
<1>15. v \in [0..n -> X]
  BY <1>10, <1>14
<1> QED BY <1>0, <1>2, <1>10, <1>11, <1>12, <1>15 DEF Freeing

(* What freeing the entries s does to the table. *)
Frees(t, u, gone) ==
  /\ u.pp_entries = t.pp_entries
  /\ \A k \in gone : u.p_data[k] = NULL
  /\ \A k \in Keys \ gone : /\ u.p_data[k] = t.p_data[k]
                            /\ u.p_next[k] = t.p_next[k] /\ u.p_prev[k] = t.p_prev[k]

(* Afterwards exactly the entries given have no data. *)
LEMMA FreeChain ==
  ASSUME NEW size, NEW t \in TableOf(size), NEW s \in Seq(Keys)
  PROVE  /\ FoldLeft(Finalize, t, s) \in TableOf(size)
         /\ Frees(t, FoldLeft(Finalize, t, s), Range(s))
<1>a. PICK v : Freeing(size, t, s, v)
  BY FreeingLoop
<1>0. PICK n, u : n = Len(s) /\ u = FoldLeft(Finalize, t, s)
  OBVIOUS
<1>1. n \in Nat /\ \A i \in 1..n : s[i] \in Keys
  BY <1>0, LenProperties
<1>2. /\ v \in [0..n -> TableOf(size)]
      /\ v[0] = t /\ v[n] = u /\ \A i \in 1..n : v[i] = Finalize(v[i - 1], s[i])
  BY <1>0, <1>a DEF Freeing
<1> DEFINE Gone(i) == {s[j] : j \in 1..i}
           I == {i \in Nat : i <= n => Frees(t, v[i], Gone(i))}
<1>3. 0 \in I
  <2>1. Gone(0) = {}
    OBVIOUS
  <2> HIDE DEF Gone
  <2>2. Frees(t, v[0], Gone(0))
    BY <1>2, <2>1 DEF Frees
  <2> QED BY <2>2
<1>4. ASSUME NEW i \in Nat, i \in I PROVE i + 1 \in I
  <2> SUFFICES ASSUME i + 1 <= n PROVE Frees(t, v[i + 1], Gone(i + 1))
    OBVIOUS
  <2>1. i \in 0..n /\ i + 1 \in 1..n /\ i + 1 - 1 = i
    BY <1>1
  <2>2. PICK x, e : x = v[i] /\ e = s[i + 1]
    OBVIOUS
  <2>3. x \in TableOf(size) /\ e \in Keys /\ v[i + 1] = Finalize(x, e)
    BY <1>1, <1>2, <2>1, <2>2
  <2>4. PICK y : y = v[i + 1]
    OBVIOUS
  <2>5. /\ y.pp_entries = x.pp_entries /\ y.p_data[e] = NULL
        /\ \A k \in Keys : /\ y.p_data[k] \in {NULL, x.p_data[k]}
                           /\ k # e => /\ y.p_data[k] = x.p_data[k]
                                       /\ y.p_next[k] = x.p_next[k]
                                       /\ y.p_prev[k] = x.p_prev[k]
    BY <2>3, <2>4, FinalizeType
  <2>6. Gone(i + 1) = Gone(i) \cup {e} /\ Gone(i) \subseteq Keys
    <3>1. 1..i + 1 = 1..i \cup {i + 1}
      OBVIOUS
    <3>2. \A j \in 1..i : s[j] \in Keys
      BY <1>1, <2>1
    <3> QED BY <2>2, <3>1, <3>2
  <2>7. Frees(t, x, Gone(i))
    BY <1>4, <2>1, <2>2
  <2> HIDE DEF Gone
  <2>8. Frees(t, y, Gone(i) \cup {e})
    BY <2>5, <2>6, <2>7 DEF Frees
  <2> QED BY <2>4, <2>6, <2>8
<1> HIDE DEF I
<1>5. n \in I
  BY <1>1, <1>3, <1>4, Induction
<1>6. Gone(n) = Range(s)
  <2>1. DOMAIN s = 1..n
    BY <1>0, LenProperties
  <2> QED BY <2>1 DEF Range
<1> HIDE DEF Gone
<1>7. Frees(t, u, Range(s))
  BY <1>1, <1>2, <1>5, <1>6 DEF I
<1>8. n \in 0..n
  BY <1>1
<1> QED BY ONLY <1>0, <1>2, <1>7, <1>8

(* The same for the chain of a bucket. *)
LEMMA FreeEntryChainType ==
  ASSUME NEW size \in Positive, NEW t \in TableOf(size), NEW b \in 0..size - 1
  PROVE  /\ FreeEntryChain(t, b) \in TableOf(size) /\ Chain(t, b) \in Seq(Keys)
         /\ Frees(t, FreeEntryChain(t, b), Range(Chain(t, b)))
<1>1. t.p_next \in Links /\ t.pp_entries \in [0..size - 1 -> Pointer]
  BY TableIs
<1>2. Chain(t, b) \in Seq(Keys)
  BY <1>1, FollowType DEF Chain
<1> QED BY <1>2, FreeChain DEF FreeEntryChain

Buckets(size) == [i \in 1..size |-> i - 1]

(* The loop over the buckets. *)
LEMMA FreeTableLoop ==
  ASSUME NEW size \in Positive, NEW t \in TableOf(size)
  PROVE  \E v \in [0..size -> TableOf(size)] :
           /\ v[0] = t /\ v[size] = FoldLeft(FreeEntryChain, t, Buckets(size))
           /\ \A i \in 1..size : v[i] = FreeEntryChain(v[i - 1], i - 1)
<1>0. PICK X, n, s : X = TableOf(size) /\ n = size /\ s = Buckets(size)
  OBVIOUS
<1>1. n \in Nat /\ DOMAIN s = 1..n /\ \A i \in 1..n : s[i] = i - 1 /\ s[i] \in 0..size - 1
  BY <1>0 DEF Positive, Buckets
<1> DEFINE g == [i \in 1..n |-> [x \in X |-> FreeEntryChain(x, s[i])]]
           F(w) == [p \in SUBSET (1..n) |->
                      IF p = {} THEN t ELSE FreeEntryChain(w[p \ {Max(p)}], s[Max(p)])]
           c == CHOOSE w : w = F(w)
<1>2. FoldLeft(FreeEntryChain, t, s) = c[1..n]
  BY <1>1 DEF FoldLeft, MapThenFoldSet
<1>3. \A i \in 1..n, x \in X : FreeEntryChain(x, s[i]) \in X
  BY <1>0, <1>1, FreeEntryChainType
<1>4. g \in [1..n -> [X -> X]] /\ \A i \in 1..n, x \in X : g[i][x] = FreeEntryChain(x, s[i])
  BY <1>3
<1> HIDE DEF g
<1>5. PICK w \in [SUBSET (1..n) -> X] : Folding(t, g, 1..n, w)
  BY <1>0, <1>1, <1>4, FoldingExists
<1>6. \A p \in SUBSET (1..n) : p # {} => Max(p) \in 1..n /\ p \ {Max(p)} \in SUBSET (1..n)
  BY <1>1, MaxIs
<1>7. w = F(w)
  BY <1>4, <1>5, <1>6 DEF Folding
<1>8. c = F(c)
  BY <1>7
<1>9. \A p \in SUBSET (1..n) :
        c[p] = IF p = {} THEN t ELSE FreeEntryChain(c[p \ {Max(p)}], s[Max(p)])
  BY <1>8
<1> HIDE DEF c, F
<1> DEFINE v == [i \in 0..n |-> c[1..i]]
<1>10. DOMAIN v = 0..n /\ v = [i \in 0..n |-> v[i]] /\ v[n] = c[1..n] /\ v[0] = c[1..0]
  BY <1>1
<1>11. v[0] = t
  <2>1. 1..0 = {} /\ 1..0 \in SUBSET (1..n)
    OBVIOUS
  <2> QED BY <1>9, <1>10, <2>1
<1>12. ASSUME NEW i \in 1..n PROVE v[i] = FreeEntryChain(v[i - 1], i - 1)
  <2>1. PICK p : p = 1..i
    OBVIOUS
  <2>2. p \in SUBSET (1..n) /\ p # {} /\ Max(p) = i /\ p \ {i} = 1..(i - 1)
    BY <1>1, <2>1, UpToIs
  <2>3. c[p] = FreeEntryChain(c[1..(i - 1)], i - 1)
    BY <1>1, <1>9, <2>2
  <2>4. v[i] = c[p] /\ v[i - 1] = c[1..(i - 1)]
    <3>1. i \in 0..n /\ i - 1 \in 0..n
      BY <1>1
    <3>2. v[i] = c[1..i]
      BY <3>1
    <3>3. v[i - 1] = c[1..(i - 1)]
      BY <3>1
    <3> QED BY <2>1, <3>2, <3>3
  <2> QED BY <2>3, <2>4
<1> HIDE DEF v
<1>13. \A i \in 1..n : v[i - 1] \in X => v[i] \in X
  <2>1. \A i \in 1..n : i - 1 \in 0..size - 1
    BY <1>0, <1>1
  <2> QED BY <1>0, <1>12, <2>1, FreeEntryChainType
<1>14. \A i \in 0..n : v[i] \in X
  BY <1>0, <1>1, <1>11, <1>13, LoopType
<1>15. v \in [0..n -> X]
  BY <1>10, <1>14
<1> QED BY <1>0, <1>2, <1>10, <1>11, <1>12, <1>15

(* The whole table: the chains are disjoint, so each is still intact when  *)
(* its turn comes, and every entry is freed.                               *)
LEMMA FreeTable ==
  ASSUME NEW size \in Positive, NEW t \in TableOf(size), NEW age, Good(t, age)
  PROVE  FoldLeft(FreeEntryChain, t, Buckets(size)).p_data = [k \in Keys |-> NULL]
<1>1. PICK v \in [0..size -> TableOf(size)] :
        /\ v[0] = t /\ v[size] = FoldLeft(FreeEntryChain, t, Buckets(size))
        /\ \A i \in 1..size : v[i] = FreeEntryChain(v[i - 1], i - 1)
  BY FreeTableLoop
<1> DEFINE Gone(i) == {k \in Range(age) : Bucket(t, k) < i}
           I == {i \in Nat : i <= size => Frees(t, v[i], Gone(i))}
<1>2. size \in Nat /\ t.i_size = size
  BY TableIs DEF Positive
<1>3. \A k \in Keys : Bucket(t, k) \in 0..size - 1
  BY BucketIs
<1>a. Range(age) \subseteq Keys
  BY RangeIs DEF Good, Aged, List
<1>4. 0 \in I
  <2>1. Gone(0) = {}
    <3>1. \A k \in Range(age) : Bucket(t, k) \in Nat
      BY <1>2, <1>3, <1>a
    <3> QED BY <3>1
  <2> HIDE DEF Gone
  <2>2. Frees(t, v[0], Gone(0))
    BY <1>1, <2>1 DEF Frees
  <2> QED BY <2>2
<1>5. ASSUME NEW i \in Nat, i \in I PROVE i + 1 \in I
  <2> SUFFICES ASSUME i + 1 <= size PROVE Frees(t, v[i + 1], Gone(i + 1))
    OBVIOUS
  <2>1. i \in 0..size /\ i + 1 \in 1..size /\ i + 1 - 1 = i /\ i \in 0..size - 1
    BY <1>2
  <2>2. PICK x, y, r : x = v[i] /\ y = v[i + 1] /\ r = Chain(t, i)
    OBVIOUS
  <2>3. x \in TableOf(size) /\ y = FreeEntryChain(x, i)
    BY <1>1, <2>1, <2>2
  <2>4. Frees(t, x, Gone(i))
    BY <1>5, <2>1, <2>2
  <2>5. /\ Chained(t, i, r)
        /\ \A k \in Keys : k \in Range(r) <=> k \in Range(age) /\ Bucket(t, k) = i
    BY <2>1, <2>2, GoodIs
  <2>6. Range(r) \subseteq Keys
    BY <2>5, RangeIs DEF Chained, List
  <2>7. \A k \in Range(r) : k \notin Gone(i)
    BY <2>5, <2>6
  <2>b. \A k \in Range(r) : x.p_next[k] = t.p_next[k] /\ x.p_prev[k] = t.p_prev[k]
    BY <2>4, <2>6, <2>7 DEF Frees
  <2>8. Chained(x, i, r)
    <3>1. x.pp_entries = t.pp_entries
      BY <2>4 DEF Frees
    <3> QED BY <2>5, <2>b, <3>1, ListFrame DEF Chained
  <2>9. Chain(x, i) = r
    BY <2>3, <2>8, ChainedIs
  <2>10. Frees(x, y, Range(r))
    BY <2>1, <2>3, <2>9, FreeEntryChainType
  <2>11. Gone(i + 1) = Gone(i) \cup Range(r)
    <3> SUFFICES ASSUME NEW k \in Keys PROVE k \in Gone(i + 1) <=> k \in Gone(i) \cup Range(r)
      BY <1>a, <2>6
    <3>1. Bucket(t, k) < i + 1 <=> Bucket(t, k) < i \/ Bucket(t, k) = i
      BY <1>2, <1>3
    <3> QED BY <2>5, <3>1
  <2>12. Gone(i) \subseteq Keys
    BY <1>a
  <2> HIDE DEF Gone
  <2>13. Frees(t, y, Gone(i) \cup Range(r))
    BY <2>4, <2>6, <2>10, <2>12 DEF Frees
  <2> QED BY <2>2, <2>11, <2>13
<1> HIDE DEF I
<1>6. size \in I
  BY <1>2, <1>4, <1>5, Induction
<1>7. Gone(size) = Range(age)
  BY <1>2, <1>3, <1>a
<1> HIDE DEF Gone
<1>8. Frees(t, v[size], Range(age))
  BY <1>2, <1>6, <1>7 DEF I
<1>9. v[size] \in TableOf(size)
  BY <1>1, <1>2
<1>10. \A k \in Keys : v[size].p_data[k] = NULL
  BY <1>8 DEF Frees, Good
<1>11. v[size].p_data \in [Keys -> Data \cup {NULL}]
  BY <1>9, TableIs
<1> QED BY <1>1, <1>10, <1>11

(* Creating a table. *)
LEMMA CreateGood ==
  ASSUME NEW size \in Positive
  PROVE  /\ Create(size) \in TableOf(size) /\ Good(Create(size), <<>>)
         /\ Create(size).p_data = [k \in Keys |-> NULL]
<1>0. PICK t : t = Create(size)
  OBVIOUS
<1>1. /\ t.i_size = size /\ t.i_items = 0
      /\ t.pp_entries = [b \in 0..size - 1 |-> NULL] /\ t.p_nr = [b \in 0..size - 1 |-> 0]
      /\ t.p_oldest = NULL /\ t.p_newest = NULL /\ t.p_data = [k \in Keys |-> NULL]
      /\ t.p_prev = [k \in Keys |-> NULL] /\ t.p_newer = [k \in Keys |-> NULL]
  BY <1>0 DEF Create
<1>2. t \in TableOf(size)
  BY <1>0 DEF Create, TableOf, Links, Pointer
<1>3. <<>> \in Seq(Keys) /\ Len(<<>>) = 0 /\ Range(<<>>) = {} /\ \A i \in Int : At(<<>>, i) = NULL
  BY DEF Range, At
<1>4. \A f, g : List(f, g, NULL, <<>>)
  BY <1>3 DEF List, Distinct
<1>5. Aged(t, <<>>)
  BY <1>1, <1>3, <1>4 DEF Aged
<1>6. \A b \in 0..t.i_size - 1 : Bucketed(t, Range(<<>>), b)
  <2> SUFFICES ASSUME NEW b \in 0..size - 1 PROVE Bucketed(t, {}, b)
    BY <1>1, <1>3
  <2>1. t.pp_entries[b] = NULL /\ t.p_nr[b] = 0
    BY <1>1
  <2>2. Chained(t, b, <<>>)
    BY <1>4, <2>1 DEF Chained
  <2> QED BY <1>3, <2>1, <2>2 DEF Bucketed
<1>7. /\ \A k \in Keys : t.p_data[k] # NULL <=> k \in Range(<<>>)
      /\ \A k \in Keys \ Range(<<>>) : Cleared(t, k)
  BY <1>1, <1>3 DEF Cleared
<1>8. Good(t, <<>>)
  BY <1>1, <1>3, <1>5, <1>6, <1>7 DEF Good
<1> QED BY <1>0, <1>1, <1>2, <1>8

(* Whatever the links, placing an entry leaves a table. *)
LEMMA PlaceType ==
  ASSUME NEW size \in Positive, NEW t \in TableOf(size), NEW k \in Keys,
         NEW d \in Data \cup {NULL}
  PROVE  Place(t, k, d, 0) \in TableOf(size)
<1>0. PICK b, u, w : b = Bucket(t, k) /\ u = LinkIn(t, b, k, d) /\ w = Count(u, b)
  OBVIOUS
<1>1. /\ b \in 0..size - 1 /\ t.p_next \in Links /\ t.p_prev \in Links
      /\ t.pp_entries \in [0..size - 1 -> Pointer] /\ t.p_data \in [Keys -> Data \cup {NULL}]
  BY <1>0, BucketIs, TableIs
<1>2. PICK p : p = t.pp_entries[b]
  OBVIOUS
<1>3. p \in Pointer /\ k \in Pointer
  BY <1>1, <1>2 DEF Pointer
<1>4. u \in TableOf(size)
  <2> DEFINE nx2 == [t.p_next EXCEPT ![k] = p]
             pr2 == [Set(t.p_prev, p, k) EXCEPT ![k] = NULL]
             nw2 == [t.p_newer EXCEPT ![k] = NULL]
             da2 == [t.p_data EXCEPT ![k] = d]
             pp2 == [t.pp_entries EXCEPT ![b] = k]
  <2>1. nx2 \in Links
    BY <1>1, <1>3 DEF Links
  <2>2. pr2 \in Links /\ nw2 \in Links
    <3>1. PICK h : h = Set(t.p_prev, p, k)
      OBVIOUS
    <3>2. h \in Links /\ t.p_newer \in Links /\ NULL \in Pointer
      BY <1>1, <1>3, <3>1, SetIs, TableIs DEF Pointer
    <3> QED BY <3>1, <3>2 DEF Links
  <2>3. da2 \in [Keys -> Data \cup {NULL}]
    BY <1>1
  <2>4. pp2 \in [0..size - 1 -> Pointer]
    BY <1>1, <1>3
  <2>5. u = [t EXCEPT !.p_data = da2, !.p_next = nx2, !.p_prev = pr2, !.p_newer = nw2,
                      !.pp_entries = pp2]
    BY <1>0, <1>2 DEF LinkIn
  <2> HIDE DEF nx2, pr2, nw2, da2, pp2
  <2> QED BY <2>1, <2>2, <2>3, <2>4, <2>5 DEF TableOf
<1>5. w \in TableOf(size)
  <2>1. PICK nr, m : nr = u.p_nr /\ m = u.i_items
    OBVIOUS
  <2>2. nr \in [0..size - 1 -> Nat] /\ m \in Nat
    BY <1>4, <2>1, TableIs
  <2>3. [nr EXCEPT ![b] = @ + 1] \in [0..size - 1 -> Nat] /\ m + 1 \in Nat
    BY ONLY <1>1, <2>2
  <2>4. w = [u EXCEPT !.p_nr = [nr EXCEPT ![b] = @ + 1], !.i_items = m + 1]
    BY <1>0, <1>4, <2>1 DEF Count, TableOf
  <2> QED BY <1>4, <2>3, <2>4 DEF TableOf
<1>6. AgeIn(w, k) \in TableOf(size)
  <2>1. PICK z : z = w.p_newest
    OBVIOUS
  <2>2. z \in Pointer /\ w.p_older \in Links /\ w.p_newer \in Links /\ w.p_oldest \in Pointer
    BY <1>5, <2>1, TableIs
  <2> DEFINE nw2 == Set(w.p_newer, z, k)
             ol2 == [w.p_older EXCEPT ![k] = z]
  <2>3. nw2 \in Links
    BY <1>3, <2>2, SetIs
  <2>4. ol2 \in Links
    BY <2>2 DEF Links
  <2>5. AgeIn(w, k) = [w EXCEPT !.p_oldest = IF @ = NULL THEN k ELSE @, !.p_older = ol2,
                                !.p_newer = nw2, !.p_newest = k]
    BY <2>1 DEF AgeIn
  <2> HIDE DEF nw2, ol2
  <2> QED BY <1>3, <1>5, <2>2, <2>3, <2>4, <2>5 DEF TableOf
<1>7. Evicted(t, k, 0) = NULL
  BY DEF Evicted
<1>8. Place(t, k, d, 0) = AgeIn(Count(LinkIn(t, b, k, d), b), k)
  BY <1>0, <1>7, PlaceIs
<1> QED BY <1>0, <1>6, <1>8

(* Rehashing: one entry. *)
Carry(t, u, k) == IF Found(u, k) THEN u ELSE Place(u, k, t.p_data[k], 0)

Carrying(size, t, keys, v) ==
  /\ v \in [0..Len(keys) -> TableOf(size)]
  /\ v[0] = Create(size) /\ v[Len(keys)] = InsertAll(t, size, keys)
  /\ \A i \in 1..Len(keys) : v[i] = Carry(t, v[i - 1], keys[i])

(* A round of ght_rehash leaves a table, whatever the old one is. *)
LEMMA CarryType ==
  ASSUME NEW size \in Positive, NEW old, NEW t \in TableOf(old),
         NEW u \in TableOf(size), NEW k \in Keys
  PROVE  Carry(t, u, k) \in TableOf(size)
<1>1. t.p_data[k] \in Data \cup {NULL}
  <2>1. t.p_data \in [Keys -> Data \cup {NULL}]
    BY TableIs
  <2> QED BY <2>1
<1> QED BY <1>1, PlaceType DEF Carry

(* The loop of ght_rehash over the entries in order of age. *)
LEMMA CarryingLoop ==
  ASSUME NEW size \in Positive, NEW old, NEW t \in TableOf(old), NEW s \in Seq(Keys)
  PROVE  \E v : Carrying(size, t, s, v)
<1>0. PICK X, n, u : X = TableOf(size) /\ n = Len(s) /\ u = Create(size)
  OBVIOUS
<1>1. n \in Nat /\ DOMAIN s = 1..n /\ \A i \in 1..n : s[i] \in Keys
  BY <1>0, LenProperties
<1> DEFINE g == [i \in 1..n |-> [x \in X |-> Carry(t, x, s[i])]]
           F(w) == [p \in SUBSET (1..n) |->
                      IF p = {} THEN u ELSE Carry(t, w[p \ {Max(p)}], s[Max(p)])]
           c == CHOOSE w : w = F(w)
<1>2. InsertAll(t, size, s) = c[1..n]
  BY <1>0, <1>1 DEF InsertAll, Carry, FoldLeft, MapThenFoldSet
<1>3. \A i \in 1..n, x \in X : Carry(t, x, s[i]) \in X
  BY <1>0, <1>1, CarryType
<1>4. g \in [1..n -> [X -> X]] /\ \A i \in 1..n, x \in X : g[i][x] = Carry(t, x, s[i])
  BY <1>3
<1>a. u \in X
  BY <1>0, CreateGood
<1> HIDE DEF g
<1>5. PICK w \in [SUBSET (1..n) -> X] : Folding(u, g, 1..n, w)
  BY <1>a, <1>1, <1>4, FoldingExists
<1>6. \A p \in SUBSET (1..n) : p # {} => Max(p) \in 1..n /\ p \ {Max(p)} \in SUBSET (1..n)
  BY <1>1, MaxIs
<1>7. w = F(w)
  BY <1>4, <1>5, <1>6 DEF Folding
<1>8. c = F(c)
  BY <1>7
<1>9. \A p \in SUBSET (1..n) : c[p] = IF p = {} THEN u ELSE Carry(t, c[p \ {Max(p)}], s[Max(p)])
  BY <1>8
<1> HIDE DEF c, F
<1> DEFINE v == [i \in 0..n |-> c[1..i]]
<1>10. DOMAIN v = 0..n /\ v = [i \in 0..n |-> v[i]] /\ v[n] = c[1..n] /\ v[0] = c[1..0]
  BY <1>1
<1>11. v[0] = u
  <2>1. 1..0 = {} /\ 1..0 \in SUBSET (1..n)
    OBVIOUS
  <2> QED BY <1>9, <1>10, <2>1
<1>12. ASSUME NEW i \in 1..n PROVE v[i] = Carry(t, v[i - 1], s[i])
  <2>1. PICK p : p = 1..i
    OBVIOUS
  <2>2. p \in SUBSET (1..n) /\ p # {} /\ Max(p) = i /\ p \ {i} = 1..(i - 1)
    BY <1>1, <2>1, UpToIs
  <2>3. c[p] = Carry(t, c[1..(i - 1)], s[i])
    BY <1>9, <2>2
  <2>4. v[i] = c[p] /\ v[i - 1] = c[1..(i - 1)]
    <3>1. i \in 0..n /\ i - 1 \in 0..n
      BY <1>1
    <3>2. v[i] = c[1..i]
      BY <3>1
    <3>3. v[i - 1] = c[1..(i - 1)]
      BY <3>1
    <3> QED BY <2>1, <3>2, <3>3
  <2> QED BY <2>3, <2>4
<1> HIDE DEF v
<1>13. \A i \in 1..n : v[i - 1] \in X => v[i] \in X
  BY <1>3, <1>12
<1>14. \A i \in 0..n : v[i] \in X
  BY <1>a, <1>1, <1>11, <1>13, LoopType
<1>15. v \in [0..n -> X]
  BY <1>10, <1>14
<1> QED BY <1>0, <1>2, <1>10, <1>11, <1>12, <1>15 DEF Carrying

(* After i entries the new table holds the first i of the old one. *)
Carried(t, u, age, i) ==
  \E a : /\ Good(u, a) /\ Len(a) = i /\ \A j \in 1..i : a[j] = age[j]
         /\ \A j \in 1..i : u.p_data[age[j]] = t.p_data[age[j]]

(* After i rounds the new table is good and has the i oldest entries. *)
LEMMA CarryGood ==
  ASSUME NEW old, NEW t \in TableOf(old), NEW age, Good(t, age),
         NEW size \in Positive, NEW u \in TableOf(size),
         NEW i \in 0..Len(age) - 1, Carried(t, u, age, i)
  PROVE  Carried(t, Carry(t, u, age[i + 1]), age, i + 1)
<1>1. age \in Seq(Keys) /\ Distinct(age) /\ Len(age) \in Nat
  BY AtIs DEF Good, Aged, List
<1>2. PICK a : /\ Good(u, a) /\ Len(a) = i /\ \A j \in 1..i : a[j] = age[j]
               /\ \A j \in 1..i : u.p_data[age[j]] = t.p_data[age[j]]
  BY DEF Carried
<1>3. a \in Seq(Keys)
  BY <1>2 DEF Good, Aged, List
<1>4. PICK k, d : k = age[i + 1] /\ d = t.p_data[k]
  OBVIOUS
<1>5. i + 1 \in 1..Len(age) /\ i \in Nat
  BY <1>1
<1>6. k \in Keys /\ k \in Range(age)
  BY <1>1, <1>4, <1>5, RangeIs
<1>7. d \in Data
  <2>1. t.p_data \in [Keys -> Data \cup {NULL}]
    BY TableIs
  <2>2. t.p_data[k] # NULL
    BY <1>6 DEF Good
  <2> QED BY <1>4, <1>6, <2>1, <2>2
<1>8. \A j \in 1..i : j \in 1..Len(age) /\ age[j] # k /\ age[j] \in Keys
  <2> SUFFICES ASSUME NEW j \in 1..i PROVE j \in 1..Len(age) /\ age[j] # k /\ age[j] \in Keys
    OBVIOUS
  <2>1. j \in 1..Len(age) /\ j # i + 1
    BY <1>1
  <2> QED BY <1>1, <1>4, <1>5, <2>1 DEF Distinct
<1>9. k \notin Range(a)
  <2> SUFFICES ASSUME k \in Range(a) PROVE FALSE
    OBVIOUS
  <2>1. PICK j \in 1..i : a[j] = k
    BY <1>2, <1>3, RangeIs
  <2> QED BY <1>2, <1>8, <2>1
<1>10. Carry(t, u, k) = Place(u, k, d, 0)
  <2>1. ~ Found(u, k)
    BY <1>2, <1>6, <1>9, FoundIs
  <2> QED BY <1>4, <2>1 DEF Carry
<1>11. Evicted(u, k, 0) = NULL
  BY DEF Evicted
<1>12. PICK w : w = Place(u, k, d, 0)
  OBVIOUS
<1>13. /\ Good(w, Append(a, k))
       /\ \A x \in Keys : w.p_data[x] = IF x = k THEN d ELSE IF x = NULL THEN NULL ELSE u.p_data[x]
  <2>1. 0 \in Nat /\ NULL = Evicted(u, k, 0)
    BY <1>11
  <2>2. /\ \E now : Good(Place(u, k, d, 0), now) /\ Inserted(a, k, NULL, now)
        /\ \A x \in Keys : Place(u, k, d, 0).p_data[x] =
             IF x = k THEN d ELSE IF x = NULL THEN NULL ELSE u.p_data[x]
    BY <1>2, <1>6, <1>7, <1>9, <2>1, PlaceGood
  <2>3. \E now : Good(w, now) /\ now = Append(a, k)
    BY <1>12, <2>2 DEF Inserted
  <2> QED BY <1>12, <2>2, <2>3
<1>14. /\ Len(Append(a, k)) = i + 1 /\ Append(a, k)[i + 1] = k
       /\ \A j \in 1..i : Append(a, k)[j] = age[j]
  BY <1>2, <1>3, <1>6, AppendProperties
<1>15. \A j \in 1..i + 1 : j = i + 1 \/ j \in 1..i
  BY <1>5
<1>16. \A j \in 1..i + 1 : Append(a, k)[j] = age[j]
  BY <1>4, <1>14, <1>15
<1>17. \A j \in 1..i + 1 : w.p_data[age[j]] = t.p_data[age[j]]
  <2> SUFFICES ASSUME NEW j \in 1..i + 1 PROVE w.p_data[age[j]] = t.p_data[age[j]]
    OBVIOUS
  <2>1. CASE j = i + 1
    BY <1>4, <1>6, <1>13, <2>1
  <2>2. CASE j \in 1..i
    BY <1>2, <1>8, <1>13, <2>2, NullAssumption
  <2> QED BY <1>15, <2>1, <2>2
<1>18. Carried(t, w, age, i + 1)
  BY <1>13, <1>14, <1>16, <1>17 DEF Carried
<1> QED BY <1>4, <1>10, <1>12, <1>18

(* ght_rehash: the same entries, in the same order, with the same data. *)
LEMMA RehashGood ==
  ASSUME NEW old, NEW t \in TableOf(old), NEW age, Good(t, age), NEW size \in Positive
  PROVE  /\ Rehashed(t, size) \in TableOf(size) /\ Good(Rehashed(t, size), age)
         /\ Rehashed(t, size).p_data = t.p_data
<1>1. age \in Seq(Keys) /\ Len(age) \in Nat /\ ByAge(t) = age
  BY AgedIs, AtIs DEF Good
<1>2. PICK v : Carrying(size, t, age, v)
  BY <1>1, CarryingLoop
<1>3. PICK n : n = Len(age)
  OBVIOUS
<1>4. /\ n \in Nat /\ \A i \in 0..n : v[i] \in TableOf(size)
      /\ v[0] = Create(size) /\ v[n] = Rehashed(t, size)
      /\ \A i \in 1..n : v[i] = Carry(t, v[i - 1], age[i])
  BY <1>1, <1>2, <1>3 DEF Carrying, Rehashed
<1> DEFINE I == {i \in Nat : i <= n => Carried(t, v[i], age, i)}
<1>5. 0 \in I
  <2>1. Good(v[0], <<>>)
    BY <1>4, CreateGood
  <2>2. Carried(t, v[0], age, 0)
    BY <2>1 DEF Carried
  <2> QED BY <2>2
<1>6. ASSUME NEW i \in Nat, i \in I PROVE i + 1 \in I
  <2> SUFFICES ASSUME i + 1 <= n PROVE Carried(t, v[i + 1], age, i + 1)
    OBVIOUS
  <2>1. i \in 0..n /\ i \in 0..Len(age) - 1 /\ i + 1 \in 1..n /\ i + 1 - 1 = i /\ i <= n
    BY <1>3, <1>4
  <2>2. v[i + 1] = Carry(t, v[i], age[i + 1]) /\ v[i] \in TableOf(size)
    BY <1>4, <2>1
  <2>3. Carried(t, v[i], age, i)
    BY <1>6, <2>1
  <2> QED BY <2>1, <2>2, <2>3, CarryGood
<1> HIDE DEF I
<1>7. n \in I
  BY <1>4, <1>5, <1>6, Induction
<1>8. PICK u : u = v[n]
  OBVIOUS
<1>9. PICK a : /\ Good(u, a) /\ Len(a) = n /\ \A j \in 1..n : a[j] = age[j]
               /\ \A j \in 1..n : u.p_data[age[j]] = t.p_data[age[j]]
  BY <1>4, <1>7, <1>8 DEF I, Carried
<1>10. a = age
  <2>1. a \in Seq(Keys)
    BY <1>9 DEF Good, Aged, List
  <2> QED BY <1>1, <1>3, <1>9, <2>1, SeqEqual
<1>11. u \in TableOf(size)
  BY <1>4, <1>8
<1>12. /\ u.p_data \in [Keys -> Data \cup {NULL}] /\ t.p_data \in [Keys -> Data \cup {NULL}]
  BY <1>11, TableIs
<1>13. \A k \in Keys : u.p_data[k] = t.p_data[k]
  <2> SUFFICES ASSUME NEW k \in Keys PROVE u.p_data[k] = t.p_data[k]
    OBVIOUS
  <2>1. CASE k \in Range(age)
    <3>1. PICK j \in 1..n : age[j] = k
      BY <1>1, <1>3, <2>1, RangeIs
    <3> QED BY <1>9, <3>1
  <2>2. CASE k \notin Range(age)
    BY <1>9, <1>10, <2>2 DEF Good
  <2> QED BY <2>1, <2>2
<1>14. u.p_data = t.p_data
  BY <1>12, <1>13
<1> QED BY <1>4, <1>8, <1>9, <1>10, <1>11, <1>14

(* Sizes.  The provers evaluate 2^i for a number i only.                   *)
LEMMA Doubled ==
  ASSUME NEW i \in 0..29
  PROVE  2 * 2^i = 2^(i + 1)
<1>1. CASE i \in 0..5
  <2>1. i = 0 \/ i = 1 \/ i = 2 \/ i = 3 \/ i = 4 \/ i = 5
    BY <1>1
  <2>2. /\ 2 * 2^0 = 2^1 /\ 2 * 2^1 = 2^2 /\ 2 * 2^2 = 2^3
        /\ 2 * 2^3 = 2^4 /\ 2 * 2^4 = 2^5 /\ 2 * 2^5 = 2^6
        /\ 0 + 1 = 1 /\ 1 + 1 = 2 /\ 2 + 1 = 3 /\ 3 + 1 = 4 /\ 4 + 1 = 5 /\ 5 + 1 = 6
    OBVIOUS
  <2> QED BY ONLY <2>1, <2>2, Zenon
<1>2. CASE i \in 6..11
  <2>1. i = 6 \/ i = 7 \/ i = 8 \/ i = 9 \/ i = 10 \/ i = 11
    BY <1>2
  <2>2. /\ 2 * 2^6 = 2^7 /\ 2 * 2^7 = 2^8 /\ 2 * 2^8 = 2^9
        /\ 2 * 2^9 = 2^10 /\ 2 * 2^10 = 2^11 /\ 2 * 2^11 = 2^12
        /\ 6 + 1 = 7 /\ 7 + 1 = 8 /\ 8 + 1 = 9 /\ 9 + 1 = 10 /\ 10 + 1 = 11 /\ 11 + 1 = 12
    OBVIOUS
  <2> QED BY ONLY <2>1, <2>2, Zenon
<1>3. CASE i \in 12..17
  <2>1. i = 12 \/ i = 13 \/ i = 14 \/ i = 15 \/ i = 16 \/ i = 17
    BY <1>3
  <2>2. /\ 2 * 2^12 = 2^13 /\ 2 * 2^13 = 2^14 /\ 2 * 2^14 = 2^15
        /\ 2 * 2^15 = 2^16 /\ 2 * 2^16 = 2^17 /\ 2 * 2^17 = 2^18
        /\ 12 + 1 = 13 /\ 13 + 1 = 14 /\ 14 + 1 = 15 /\ 15 + 1 = 16 /\ 16 + 1 = 17 /\ 17 + 1 = 18
    OBVIOUS
  <2> QED BY ONLY <2>1, <2>2, Zenon
<1>4. CASE i \in 18..23
  <2>1. i = 18 \/ i = 19 \/ i = 20 \/ i = 21 \/ i = 22 \/ i = 23
    BY <1>4
  <2>2. /\ 2 * 2^18 = 2^19 /\ 2 * 2^19 = 2^20 /\ 2 * 2^20 = 2^21
        /\ 2 * 2^21 = 2^22 /\ 2 * 2^22 = 2^23 /\ 2 * 2^23 = 2^24
        /\ 18 + 1 = 19 /\ 19 + 1 = 20 /\ 20 + 1 = 21 /\ 21 + 1 = 22 /\ 22 + 1 = 23 /\ 23 + 1 = 24
    OBVIOUS
  <2> QED BY ONLY <2>1, <2>2, Zenon
<1>5. CASE i \in 24..29
  <2>1. i = 24 \/ i = 25 \/ i = 26 \/ i = 27 \/ i = 28 \/ i = 29
    BY <1>5
  <2>2. /\ 2 * 2^24 = 2^25 /\ 2 * 2^25 = 2^26 /\ 2 * 2^26 = 2^27
        /\ 2 * 2^27 = 2^28 /\ 2 * 2^28 = 2^29 /\ 2 * 2^29 = 2^30
        /\ 24 + 1 = 25 /\ 25 + 1 = 26 /\ 26 + 1 = 27 /\ 27 + 1 = 28 /\ 28 + 1 = 29 /\ 29 + 1 = 30
    OBVIOUS
  <2> QED BY ONLY <2>1, <2>2, Zenon
<1> QED BY <1>1, <1>2, <1>3, <1>4, <1>5

(* No size is 0. *)
LEMMA SizesPositive == \A i \in 0..30 : 2^i \in Positive
<1> DEFINE I == {i \in Nat : i <= 30 => 2^i \in Positive}
<1>1. 0 \in I
  <2>1. 2^0 = 1
    OBVIOUS
  <2> QED BY <2>1 DEF Positive
<1>2. ASSUME NEW i \in Nat, i \in I PROVE i + 1 \in I
  <2> SUFFICES ASSUME i + 1 <= 30 PROVE 2^(i + 1) \in Positive
    OBVIOUS
  <2>1. i \in 0..29 /\ 2^i \in Positive
    BY <1>2
  <2>2. PICK x : x = 2^i
    OBVIOUS
  <2>3. 2^(i + 1) = 2 * x
    BY <2>1, <2>2, Doubled
  <2> QED BY <2>1, <2>2, <2>3 DEF Positive
<1> HIDE DEF I
<1>3. Nat \subseteq I
  BY <1>1, <1>2, Induction
<1> QED BY <1>3 DEF I

(* A table is doubled only when it holds more than twice as many entries,  *)
(* and there are never more than 2^30.                                     *)
LEMMA DoubledSize ==
  ASSUME NEW i \in 0..30, 2 * 2^i < 2^30
  PROVE  i + 1 \in 0..30 /\ 2 * 2^i = 2^(i + 1)
<1>1. ~ (2 * 2^29 < 2^30) /\ ~ (2 * 2^30 < 2^30)
  OBVIOUS
<1>2. i # 29 /\ i # 30
  BY ONLY <1>1, 2 * 2^i < 2^30, Zenon
<1>3. i \in 0..29 /\ i + 1 \in 0..30
  BY <1>2
<1> QED BY <1>3, Doubled

(***************************************************************************)
(* The actions, for a table that holds the entries age.                    *)
(***************************************************************************)
Holds(t, age) == \E i \in 0..30 : t \in TableOf(2^i) /\ Good(t, age)

(* A table that holds entries is good for its size. *)
LEMMA HoldsIs ==
  ASSUME NEW t, NEW age, Holds(t, age)
  PROVE  \E size \in Positive : t \in TableOf(size) /\ Good(t, age)
BY SizesPositive DEF Holds

(* What the operations need of a table that holds entries. *)
LEMMA HeldIs ==
  ASSUME NEW t, NEW age, Holds(t, age)
  PROVE  /\ ByAge(t) = age /\ age \in Seq(Keys) /\ Distinct(age) /\ Len(age) \in Nat
         /\ \A k \in Keys : Found(t, k) <=> k \in Range(age)
         /\ \A k \in Keys : t.p_data[k] # NULL <=> k \in Range(age)
         /\ t.p_data \in [Keys -> Data \cup {NULL}]
<1>1. PICK size \in Positive : t \in TableOf(size) /\ Good(t, age)
  BY HoldsIs
<1>2. ByAge(t) = age /\ age \in Seq(Keys) /\ Distinct(age)
  BY <1>1, AgedIs DEF Good
<1>3. \A k \in Keys : Found(t, k) <=> k \in Range(age)
  BY <1>1, FoundIs
<1>4. \A k \in Keys : t.p_data[k] # NULL <=> k \in Range(age)
  BY <1>1 DEF Good
<1>5. t.p_data \in [Keys -> Data \cup {NULL}]
  BY <1>1, TableIs
<1> QED BY <1>2, <1>3, <1>4, <1>5, AtIs

(* What an insertion of k makes of the table, out being the entry evicted. *)
Insertion(t, u, age, now, k, d, out) ==
  /\ Holds(u, now) /\ k \notin Range(age) /\ Inserted(age, k, out, now)
  /\ \A x \in Keys : u.p_data[x] = IF x = k THEN d ELSE IF x = out THEN NULL ELSE t.p_data[x]

(* ght_insert, with the rehash that may come before the entry is placed. *)
LEMMA InsertHolds ==
  ASSUME NEW age, Holds(table, age), NEW k \in Keys, NEW d \in Data, flags.limit \in Nat,
         GhtInsert(k, d)
  PROVE  \E out, now :
           /\ Insertion(table, table', age, now, k, d, out)
           /\ Freed({out} \ {NULL}, {out} \ {NULL}) \/ Freed(Keys, {out} \ {NULL})
           /\ flags' = flags
<1>1. PICK i \in 0..30 : table \in TableOf(2^i) /\ Good(table, age)
  BY DEF Holds
<1>2. 2^i \in Positive /\ table.i_size = 2^i
  BY <1>1, SizesPositive, TableIs
<1>3. PICK full : full = (flags.rehash /\ table.i_items > 2 * table.i_size)
  OBVIOUS
<1>4. PICK t : t = IF full THEN Rehashed(table, 2 * table.i_size) ELSE table
  OBVIOUS
<1>5. PICK out : out = Evicted(t, k, flags.limit)
  OBVIOUS
<1>6. /\ ~ Found(table, k) /\ table' = Place(t, k, d, flags.limit) /\ flags' = flags
      /\ Freed(IF full THEN Keys ELSE {out} \ {NULL}, {out} \ {NULL})
  BY <1>3, <1>4, <1>5 DEF GhtInsert
<1>7. k \notin Range(age)
  BY <1>6, HeldIs
<1>8. \E j \in 0..30 : t \in TableOf(2^j) /\ Good(t, age) /\ t.p_data = table.p_data
  <2>1. CASE ~ full
    BY <1>1, <1>4, <2>1
  <2>2. CASE full
    <3>1. table.i_items > 2 * 2^i
      BY <1>2, <1>3, <2>2
    <3>2. table.i_items = Len(age) /\ age \in Seq(Keys) /\ Distinct(age)
      BY <1>1, HeldIs DEF Good
    <3>3. Len(age) <= Cardinality(Keys) /\ Cardinality(Keys) \in Nat /\ Len(age) \in Nat
      BY <3>2, DistinctLen, AtIs, KeysAssumption, FS_CardinalityType
    <3>4. 2^30 \in Nat /\ 2^i \in Nat
      BY <1>2 DEF Positive
    <3>5. 2 * 2^i < 2^30
      <4>1. PICK c, l, x, y : c = Cardinality(Keys) /\ l = Len(age) /\ x = 2^i /\ y = 2^30
        OBVIOUS
      <4>2. c <= y
        BY <4>1, KeysAssumption
      <4>3. l > 2 * x /\ l <= c /\ c \in Nat /\ l \in Nat /\ x \in Nat /\ y \in Nat
        BY <3>1, <3>2, <3>3, <3>4, <4>1
      <4>4. 2 * x < y
        BY ONLY <4>2, <4>3
      <4> QED BY <4>1, <4>4
    <3>6. i + 1 \in 0..30 /\ 2 * 2^i = 2^(i + 1)
      BY <3>5, DoubledSize
    <3>7. t = Rehashed(table, 2^(i + 1)) /\ 2^(i + 1) \in Positive
      BY <1>2, <1>4, <2>2, <3>6, SizesPositive
    <3>8. t \in TableOf(2^(i + 1)) /\ Good(t, age) /\ t.p_data = table.p_data
      BY <1>1, <3>7, RehashGood
    <3> QED BY <3>6, <3>8
  <2> QED BY <2>1, <2>2
<1>9. PICK j \in 0..30 : t \in TableOf(2^j) /\ Good(t, age) /\ t.p_data = table.p_data
  BY <1>8
<1>10. 2^j \in Positive
  BY SizesPositive
<1>11. PICK u : u = Place(t, k, d, flags.limit)
  OBVIOUS
<1>12. /\ u \in TableOf(2^j)
       /\ \E now : Good(u, now) /\ Inserted(age, k, out, now)
       /\ \A x \in Keys : u.p_data[x] =
            IF x = k THEN d ELSE IF x = out THEN NULL ELSE table.p_data[x]
  BY <1>5, <1>7, <1>9, <1>10, <1>11, PlaceGood
<1>13. PICK now : Good(u, now) /\ Inserted(age, k, out, now)
  BY <1>12
<1>14. Holds(u, now)
  BY <1>12, <1>13 DEF Holds
<1>15. Insertion(table, u, age, now, k, d, out)
  BY <1>7, <1>12, <1>13, <1>14 DEF Insertion
<1>16. Freed({out} \ {NULL}, {out} \ {NULL}) \/ Freed(Keys, {out} \ {NULL})
  <2>1. CASE full
    BY <1>6, <2>1
  <2>2. CASE ~ full
    BY <1>6, <2>2
  <2> QED BY <2>1, <2>2
<1> QED BY <1>6, <1>11, <1>15, <1>16

(* ght_get: the chain may be reordered, the data stays. *)
LEMMA GetHolds ==
  ASSUME NEW age, Holds(table, age), NEW k \in Keys, Found(table, k)
  PROVE  /\ Holds(Search(table, k), age) /\ Search(table, k).p_data = table.p_data
<1>1. PICK i \in 0..30 : table \in TableOf(2^i) /\ Good(table, age)
  BY DEF Holds
<1>2. 2^i \in Positive /\ k \in Range(age)
  BY SizesPositive, HeldIs
<1>3. /\ Search(table, k) \in TableOf(2^i) /\ Good(Search(table, k), age)
      /\ Search(table, k).p_data = table.p_data
  BY <1>1, <1>2, SearchGood
<1> QED BY <1>3 DEF Holds

(* ght_replace: only the data of one entry changes. *)
LEMMA DataHolds ==
  ASSUME NEW t, NEW age, Holds(t, age), NEW k \in Range(age), NEW d \in Data
  PROVE  /\ Holds([t EXCEPT !.p_data[k] = d], age)
         /\ \A x \in Keys : [t EXCEPT !.p_data[k] = d].p_data[x] = IF x = k THEN d ELSE t.p_data[x]
<1>1. PICK i \in 0..30 : t \in TableOf(2^i) /\ Good(t, age)
  BY DEF Holds
<1>2. PICK size, u : size = 2^i /\ u = [t EXCEPT !.p_data[k] = d]
  OBVIOUS
<1>3. size \in Positive /\ t \in TableOf(size)
  BY <1>1, <1>2, SizesPositive
<1>4. t.p_data \in [Keys -> Data \cup {NULL}] /\ k \in Keys
  <2>1. Range(age) \subseteq Keys
    BY HeldIs, RangeIs
  <2> QED BY <1>3, <2>1, TableIs
<1>5. PICK da : da = [t.p_data EXCEPT ![k] = d]
  OBVIOUS
<1>6. da \in [Keys -> Data \cup {NULL}] /\ \A x \in Keys : da[x] = IF x = k THEN d ELSE t.p_data[x]
  BY <1>4, <1>5
<1>7. u = [t EXCEPT !.p_data = da]
  BY <1>2, <1>5
<1>8. u \in TableOf(size)
  BY <1>3, <1>6, <1>7 DEF TableOf
<1>9. /\ u.p_data = da /\ u.i_items = t.i_items /\ u.i_size = t.i_size
      /\ u.pp_entries = t.pp_entries /\ u.p_nr = t.p_nr
      /\ u.p_next = t.p_next /\ u.p_prev = t.p_prev /\ u.p_newer = t.p_newer
      /\ u.p_older = t.p_older /\ u.p_oldest = t.p_oldest /\ u.p_newest = t.p_newest
  BY <1>3, <1>7 DEF TableOf
<1>10. Aged(u, age)
  BY <1>1, <1>9 DEF Good, Aged
<1>11. \A b \in 0..u.i_size - 1 : Bucketed(u, Range(age), b)
  <2> SUFFICES ASSUME NEW b \in 0..t.i_size - 1 PROVE Bucketed(u, Range(age), b)
    BY <1>9
  <2>1. Bucketed(t, Range(age), b)
    BY <1>1 DEF Good
  <2>2. \A x \in Keys : Bucket(u, x) = Bucket(t, x)
    BY <1>9 DEF Bucket
  <2> QED BY <1>9, <2>1, <2>2 DEF Bucketed, Chained
<1>12. \A x \in Keys : u.p_data[x] # NULL <=> x \in Range(age)
  BY <1>1, <1>6, <1>9, NullAssumption DEF Good
<1>13. u.i_items = Len(age) /\ \A x \in Keys \ Range(age) : Cleared(u, x)
  BY <1>1, <1>9 DEF Good, Cleared
<1>14. Good(u, age)
  BY ONLY <1>10, <1>11, <1>12, <1>13 DEF Good
<1>15. Holds(u, age)
  BY <1>2, <1>8, <1>14 DEF Holds
<1> QED BY <1>2, <1>6, <1>9, <1>15

(* ght_remove: one entry leaves the list by age and loses its data. *)
LEMMA RemoveHolds ==
  ASSUME NEW age, Holds(table, age), NEW k \in Keys, GhtRemove(k)
  PROVE  \E i \in 1..Len(age) :
           /\ age[i] = k /\ Holds(table', RemoveAt(age, i))
           /\ \A x \in Keys : table'.p_data[x] = IF x = k THEN NULL ELSE table.p_data[x]
<1>1. PICK m \in 0..30 : table \in TableOf(2^m) /\ Good(table, age)
  BY DEF Holds
<1>2. PICK b, u : b = Bucket(table, k) /\ u = Removed(table, b, k)
  OBVIOUS
<1>3. Found(table, k) /\ table' = u
  BY <1>2 DEF GhtRemove, MayRemove, Removed, Unlink
<1>4. 2^m \in Positive /\ k \in Range(age) /\ age \in Seq(Keys)
  BY <1>3, SizesPositive, HeldIs
<1>5. PICK i \in 1..Len(age) : age[i] = k
  BY <1>4, RangeIs
<1>6. /\ u \in TableOf(2^m) /\ Good(u, RemoveAt(age, i))
      /\ \A x \in Keys : u.p_data[x] = IF x = k THEN NULL ELSE table.p_data[x]
  BY <1>1, <1>2, <1>4, <1>5, RemoveGood
<1>7. Holds(u, RemoveAt(age, i))
  BY <1>6 DEF Holds
<1> QED BY <1>3, <1>5, <1>6, <1>7

(* ght_rehash, called or automatic. *)
LEMMA RehashHolds ==
  ASSUME NEW age, Holds(table, age), NEW size \in Sizes
  PROVE  Holds(Rehashed(table, size), age) /\ Rehashed(table, size).p_data = table.p_data
<1>1. PICK i \in 0..30 : table \in TableOf(2^i) /\ Good(table, age)
  BY DEF Holds
<1>2. PICK j \in 0..30 : size = 2^j
  BY SizesAssumption
<1>3. size \in Positive
  BY <1>2, SizesPositive
<1> QED BY <1>1, <1>2, <1>3, RehashGood DEF Holds

(* A new table is empty. *)
LEMMA CreateHolds ==
  ASSUME NEW size \in Sizes
  PROVE  Holds(Create(size), <<>>)
<1>1. PICK j \in 0..30 : size = 2^j
  BY SizesAssumption
<1>2. size \in Positive
  BY <1>1, SizesPositive
<1> QED BY <1>1, <1>2, CreateGood DEF Holds

(* ght_finalize frees every entry, so that nothing is left in the next table. *)
LEMMA FinalizeHolds ==
  ASSUME NEW age, Holds(table, age), NEW size \in Sizes, GhtFinalize(size)
  PROVE  table' = Create(size)
<1>1. PICK i \in 0..30 : table \in TableOf(2^i) /\ Good(table, age)
  BY DEF Holds
<1>2. 2^i \in Positive /\ table.i_size = 2^i
  BY <1>1, SizesPositive, TableIs
<1>3. FoldLeft(FreeEntryChain, table, Buckets(2^i)).p_data = [k \in Keys |-> NULL]
  BY <1>1, <1>2, FreeTable
<1>4. PICK left : left = FoldLeft(FreeEntryChain, table, Buckets(2^i)).p_data
  OBVIOUS
<1>5. table' = [Create(size) EXCEPT !.p_data = left]
  BY <1>2, <1>4 DEF GhtFinalize, Buckets
<1>6. left = Create(size).p_data
  BY <1>3, <1>4 DEF Create
<1> QED BY <1>5, <1>6 DEF Create

(***************************************************************************)
(* Walks.                                                                  *)
(***************************************************************************)

(* The entries from p on. *)
Ahead(age, p) ==
  {x \in Range(age) : \E i \in 1..Len(age), j \in 1..Len(age) :
                        i <= j /\ age[i] = p /\ age[j] = x}

(* A walk through age with the iterator it, that was given sn and is owed ow. *)
Walked(age, it, sn, ow) ==
  /\ it \in [p_entry : Pointer \cup {FREED}, p_next : Pointer \cup {FREED}]
  /\ sn \subseteq Range(age) /\ ow \subseteq Range(age)
  /\ it.p_entry = NULL => it.p_next = NULL
  /\ IF it.p_next = FREED
       THEN sn = {} /\ ow = {}
       ELSE /\ it.p_next \in Range(age) \cup {NULL}
            /\ ow \subseteq Ahead(age, it.p_next)
            /\ \A x \in Ahead(age, it.p_next) : x \notin sn

(* Whatever is not gone is in now as well, and in the same order. *)
Keeps(age, now, gone) ==
  \A i \in 1..Len(age), j \in 1..Len(age) :
    i <= j /\ age[i] \notin gone /\ age[j] \notin gone =>
      \E m \in 1..Len(now), n \in 1..Len(now) : m <= n /\ now[m] = age[i] /\ now[n] = age[j]

(* What a walk needs: entries that stay keep their order.  A new entry comes last. *)
LEMMA KeepsAppend ==
  ASSUME NEW age \in Seq(Keys), NEW k \in Keys
  PROVE  Keeps(age, Append(age, k), {})
<1>1. PICK now, l : now = Append(age, k) /\ l = Len(age)
  OBVIOUS
<1>2. l \in Nat /\ Len(now) = l + 1 /\ \A i \in 1..l : now[i] = age[i]
  BY <1>1, AppendProperties, LenProperties
<1>3. \A i \in 1..l : i \in 1..l + 1
  BY <1>2
<1> QED BY <1>1, <1>2, <1>3 DEF Keeps

(* Of an entry taken out only itself is gone. *)
LEMMA KeepsRemoveAt ==
  ASSUME NEW age \in Seq(Keys), Distinct(age), NEW r \in 1..Len(age)
  PROVE  Keeps(age, RemoveAt(age, r), {age[r]})
<1>1. PICK now, l : now = RemoveAt(age, r) /\ l = Len(age)
  OBVIOUS
<1>2. /\ l \in Nat /\ Len(now) = l - 1
      /\ \A i \in 1..l - 1 : now[i] = IF i < r THEN age[i] ELSE age[i + 1]
  BY <1>1, RemoveAtIs, LenProperties
<1> DEFINE To(i) == IF i < r THEN i ELSE i - 1
<1>3. ASSUME NEW i \in 1..l, age[i] # age[r]
      PROVE  To(i) \in 1..l - 1 /\ now[To(i)] = age[i]
  <2>1. CASE i < r
    <3>1. i \in 1..l - 1
      BY <1>1, <1>2, <2>1
    <3> QED BY <1>2, <2>1, <3>1
  <2>2. CASE ~(i < r)
    <3>1. i # r
      BY <1>3
    <3>2. i - 1 \in 1..l - 1 /\ ~(i - 1 < r) /\ i - 1 + 1 = i
      BY <1>1, <1>2, <2>2, <3>1
    <3>3. now[i - 1] = age[i]
      BY <1>2, <3>2
    <3> QED BY <2>2, <3>2, <3>3
  <2> QED BY <2>1, <2>2
<1>4. \A i, j \in 1..l : i <= j => To(i) <= To(j)
  BY <1>1, <1>2
<1> HIDE DEF To
<1>5. ASSUME NEW i \in 1..l, NEW j \in 1..l, i <= j, age[i] # age[r], age[j] # age[r]
      PROVE  \E m \in 1..l - 1, n \in 1..l - 1 : m <= n /\ now[m] = age[i] /\ now[n] = age[j]
  BY <1>3, <1>4, <1>5
<1>6. ASSUME NEW i \in 1..Len(age), NEW j \in 1..Len(age), i <= j,
             age[i] \notin {age[r]}, age[j] \notin {age[r]}
      PROVE  \E m \in 1..Len(now), n \in 1..Len(now) :
               m <= n /\ now[m] = age[i] /\ now[n] = age[j]
  <2>1. i \in 1..l /\ j \in 1..l /\ age[i] # age[r] /\ age[j] # age[r]
    BY <1>1, <1>6
  <2>2. 1..Len(now) = 1..l - 1
    BY <1>2
  <2>3. PICK m \in 1..l - 1, n \in 1..l - 1 : m <= n /\ now[m] = age[i] /\ now[n] = age[j]
    BY ONLY <1>5, <1>6, <2>1
  <2> QED BY ONLY <2>2, <2>3
<1>7. Keeps(age, now, {age[r]})
  BY ONLY <1>6 DEF Keeps
<1> QED BY <1>1, <1>7

(* Two such steps make one. *)
LEMMA KeepsTrans ==
  ASSUME NEW a \in Seq(Keys), NEW b \in Seq(Keys), NEW c \in Seq(Keys), NEW gone,
         Keeps(a, b, gone), Keeps(b, c, {})
  PROVE  Keeps(a, c, gone)
<1> SUFFICES ASSUME NEW i \in 1..Len(a), NEW j \in 1..Len(a),
                    i <= j, a[i] \notin gone, a[j] \notin gone
             PROVE  \E m \in 1..Len(c), n \in 1..Len(c) : m <= n /\ c[m] = a[i] /\ c[n] = a[j]
  BY DEF Keeps
<1>1. PICK m \in 1..Len(b), n \in 1..Len(b) : m <= n /\ b[m] = a[i] /\ b[n] = a[j]
  BY DEF Keeps
<1>2. \E p \in 1..Len(c), q \in 1..Len(c) : p <= q /\ c[p] = b[m] /\ c[q] = b[n]
  BY <1>1 DEF Keeps
<1> QED BY <1>1, <1>2

(* An insertion, with the entry it evicts. *)
LEMMA KeepsInserted ==
  ASSUME NEW age \in Seq(Keys), Distinct(age), NEW now \in Seq(Keys), NEW k \in Keys,
         NEW out, Inserted(age, k, out, now)
  PROVE  Keeps(age, now, {out} \ {NULL})
<1>1. CASE out = NULL
  <2>1. now = Append(age, k) /\ {out} \ {NULL} = {}
    BY <1>1 DEF Inserted
  <2> QED BY <2>1, KeepsAppend
<1>2. CASE out # NULL
  <2>1. PICK i \in 1..Len(age) : age[i] = out /\ now = Append(RemoveAt(age, i), k)
    BY <1>2 DEF Inserted
  <2>2. PICK mid : mid = RemoveAt(age, i)
    OBVIOUS
  <2>3. mid \in Seq(Keys) /\ Keeps(age, mid, {out})
    BY <2>1, <2>2, RemoveAtIs, KeepsRemoveAt
  <2>4. Keeps(mid, now, {})
    BY <2>1, <2>2, <2>3, KeepsAppend
  <2>5. {out} \ {NULL} = {out}
    BY <1>2
  <2> QED BY <2>3, <2>4, <2>5, KeepsTrans
<1> QED BY <1>1, <1>2

(* No walk. *)
LEMMA NotWalked ==
  ASSUME NEW age \in Seq(Keys)
  PROVE  Walked(age, NoIter, {}, {})
<1>1. NULL \notin Range(age)
  BY RangeIs, NullAssumption
<1>2. Ahead(age, NULL) = {}
  BY <1>1, RangeIs DEF Ahead
<1>3. NULL # FREED
  BY NullAssumption
<1> QED BY <1>2, <1>3 DEF Walked, NoIter, Pointer

(* A walk goes on when entries are freed, the gone ones among them. *)
LEMMA WalkGoesOn ==
  ASSUME NEW age \in Seq(Keys), NEW now \in Seq(Keys), Distinct(now),
         NEW freed \in SUBSET Keys, NEW gone, gone \subseteq freed, Keeps(age, now, gone),
         Walked(age, iter, seen, owed), Freed(freed, gone)
  PROVE  Walked(now, iter', seen', owed')
<1>1. PICK e, p : e = iter.p_entry /\ p = iter.p_next
  OBVIOUS
<1>2. PICK f, q : /\ f = IF e \in freed THEN FREED ELSE e
                  /\ q = IF p \in freed THEN FREED ELSE p
  OBVIOUS
<1>3. iter' = [p_entry |-> f, p_next |-> q]
  BY <1>1, <1>2 DEF Freed
<1>4. e \in Pointer \cup {FREED} /\ p \in Pointer \cup {FREED} /\ (e = NULL => p = NULL)
  BY <1>1 DEF Walked
<1>5. FREED \notin Keys /\ FREED # NULL /\ NULL \notin Keys
  BY NullAssumption
<1>6. /\ iter' \in [p_entry : Pointer \cup {FREED}, p_next : Pointer \cup {FREED}]
      /\ iter'.p_entry = NULL => iter'.p_next = NULL
      /\ iter'.p_next = q
  <2>1. f \in Pointer \cup {FREED} /\ q \in Pointer \cup {FREED} /\ (f = NULL => q = NULL)
    BY <1>2, <1>4, <1>5
  <2> QED BY <1>3, <2>1
<1>7. seen \subseteq Range(age) /\ owed \subseteq Range(age)
  BY DEF Walked
<1>8. \A x \in Range(age) : x \notin gone => x \in Range(now)
  <2> SUFFICES ASSUME NEW x \in Range(age), x \notin gone PROVE x \in Range(now)
    OBVIOUS
  <2>1. PICK i \in 1..Len(age) : age[i] = x
    BY RangeIs
  <2>2. i <= i
    BY LenProperties
  <2>3. \E m \in 1..Len(now) : now[m] = x
    BY <2>1, <2>2 DEF Keeps
  <2> QED BY <2>3, RangeIs
<1>9. CASE p \in freed
  <2>1. q = FREED /\ seen' = {} /\ owed' = {}
    BY <1>1, <1>2, <1>9 DEF Freed
  <2> QED BY <1>6, <2>1 DEF Walked
<1>10. CASE p \notin freed
  <2>1. q = p /\ p \notin gone /\ seen' = seen \ gone /\ owed' = owed \ gone
    BY <1>1, <1>2, <1>10 DEF Freed
  <2>2. seen' \subseteq Range(now) /\ owed' \subseteq Range(now)
    BY <1>7, <1>8, <2>1
  <2>a. ASSUME p = FREED PROVE seen' = {} /\ owed' = {}
    BY <1>1, <2>1, <2>a DEF Walked
  <2>3. ASSUME p # FREED
        PROVE  /\ p \in Range(now) \cup {NULL}
               /\ owed' \subseteq Ahead(now, p)
               /\ \A x \in Ahead(now, p) : x \notin seen'
    <3>1. p \in Range(age) \cup {NULL} /\ owed \subseteq Ahead(age, p)
      BY <1>1, <2>3 DEF Walked
    <3>2. \A x \in Ahead(age, p) : x \notin seen
      BY <1>1, <2>3 DEF Walked
    <3>3. p \in Range(now) \cup {NULL}
      BY <1>8, <2>1, <3>1
    <3>4. \A x \in Ahead(age, p) : x \notin gone => x \in Ahead(now, p)
      <4> SUFFICES ASSUME NEW x \in Ahead(age, p), x \notin gone PROVE x \in Ahead(now, p)
        OBVIOUS
      <4>1. PICK i \in 1..Len(age), j \in 1..Len(age) : i <= j /\ age[i] = p /\ age[j] = x
        BY DEF Ahead
      <4>2. age[i] \notin gone /\ age[j] \notin gone
        BY <2>1, <4>1
      <4>3. \E m \in 1..Len(now), n \in 1..Len(now) :
              m <= n /\ now[m] = age[i] /\ now[n] = age[j]
        BY <4>1, <4>2 DEF Keeps
      <4>4. PICK m \in 1..Len(now), n \in 1..Len(now) : m <= n /\ now[m] = p /\ now[n] = x
        BY <4>1, <4>3
      <4>5. x \in Range(now)
        BY <4>4, RangeIs
      <4> QED BY <4>4, <4>5 DEF Ahead
    <3>5. \A x \in Ahead(now, p) : x \in seen => x \in gone \/ x \in Ahead(age, p)
      <4> SUFFICES ASSUME NEW x \in Ahead(now, p), x \in seen, x \notin gone
                   PROVE  x \in Ahead(age, p)
        OBVIOUS
      <4>1. PICK a \in 1..Len(now), b \in 1..Len(now) : a <= b /\ now[a] = p /\ now[b] = x
        BY DEF Ahead
      <4>2. p \in Range(now) /\ p \in Keys
        BY <4>1, RangeIs
      <4>3. p \in Range(age) /\ x \in Range(age)
        BY <1>5, <1>7, <3>1, <4>2
      <4>4. PICK i \in 1..Len(age), j \in 1..Len(age) : age[i] = p /\ age[j] = x
        BY <4>3, RangeIs
      <4>5. CASE i <= j
        BY <4>3, <4>4, <4>5 DEF Ahead
      <4>6. CASE ~(i <= j)
        <5>1. j <= i
          BY <4>6, LenProperties
        <5>2. age[j] \notin gone /\ age[i] \notin gone
          BY <2>1, <4>4
        <5>3. \E m \in 1..Len(now), n \in 1..Len(now) :
                m <= n /\ now[m] = age[j] /\ now[n] = age[i]
          BY <5>1, <5>2 DEF Keeps
        <5>4. PICK m \in 1..Len(now), n \in 1..Len(now) : m <= n /\ now[m] = x /\ now[n] = p
          BY <4>4, <5>3
        <5>5. m = b /\ n = a
          BY <4>1, <5>4 DEF Distinct
        <5>6. a = b
          BY <4>1, <5>4, <5>5, LenProperties
        <5>7. x = p
          BY <4>1, <5>6
        <5>8. i <= i
          BY LenProperties
        <5> QED BY <4>3, <4>4, <5>7, <5>8 DEF Ahead
      <4> QED BY <4>5, <4>6
    <3> QED BY <2>1, <3>1, <3>2, <3>3, <3>4, <3>5
  <2> QED BY <1>6, <2>1, <2>2, <2>a, <2>3 DEF Walked
<1> QED BY <1>9, <1>10

(* ght_first: the oldest is seen, the iterator leads to the one after it. *)
LEMMA FirstWalks ==
  ASSUME NEW age, Holds(table, age), GhtFirst
  PROVE  Walked(age, iter', seen', owed')
<1>1. PICK size \in Positive : table \in TableOf(size) /\ Good(table, age)
  BY HoldsIs
<1>2. /\ age \in Seq(Keys) /\ ByAge(table) = age /\ Len(age) \in Nat /\ Distinct(age)
  BY HeldIs
<1>3. /\ table.p_oldest = At(age, 1)
      /\ \A i \in 1..Len(age) : table.p_newer[age[i]] = At(age, i + 1)
  BY <1>1 DEF Good, Aged, List
<1>4. PICK p : p = At(age, 2)
  OBVIOUS
<1>5. 1 \in 1..Len(age) /\ table.p_oldest = age[1]
  <2>1. At(age, 1) # NULL
    BY <1>3 DEF GhtFirst
  <2> QED BY <1>3, <2>1 DEF At
<1>6. /\ iter' = [p_entry |-> age[1], p_next |-> p] /\ seen' = {age[1]}
      /\ owed' = Range(age) \ {age[1]}
  BY <1>2, <1>3, <1>4, <1>5 DEF GhtFirst
<1>7. age[1] \in Keys /\ Range(age) \subseteq Keys /\ age[1] \in Range(age)
  BY <1>2, <1>5, RangeIs
<1>8. p \in Range(age) \cup {NULL}
  BY <1>2, <1>4, RangeIs DEF At
<1>9. \A x \in Range(age) \ {age[1]} : x \in Ahead(age, p)
  <2> SUFFICES ASSUME NEW x \in Range(age), x # age[1] PROVE x \in Ahead(age, p)
    OBVIOUS
  <2>1. PICK j \in 1..Len(age) : age[j] = x
    BY <1>2, RangeIs
  <2>2. j # 1
    BY <2>1
  <2>3. 2 \in 1..Len(age) /\ 2 <= j
    BY <1>2, <2>2
  <2>4. age[2] = p
    BY <1>4, <2>3 DEF At
  <2> QED BY <2>1, <2>3, <2>4 DEF Ahead
<1>10. \A x \in Ahead(age, p) : x # age[1]
  <2> SUFFICES ASSUME NEW x \in Ahead(age, p), x = age[1] PROVE FALSE
    OBVIOUS
  <2>1. PICK i \in 1..Len(age), j \in 1..Len(age) : i <= j /\ age[i] = p /\ age[j] = x
    BY DEF Ahead
  <2>2. j = 1 /\ i = 1
    BY <1>2, <1>5, <2>1 DEF Distinct
  <2>3. p = age[1] /\ p # NULL
    BY <1>7, <2>1, <2>2, NullAssumption
  <2>4. 2 \in 1..Len(age) /\ age[2] = age[1]
    BY <1>4, <2>3 DEF At
  <2> QED BY <1>2, <1>5, <2>4 DEF Distinct
<1>11. /\ iter' \in [p_entry : Pointer \cup {FREED}, p_next : Pointer \cup {FREED}]
       /\ iter'.p_next = p /\ iter'.p_entry # NULL
  BY <1>6, <1>7, <1>8, NullAssumption DEF Pointer
<1>12. p # FREED
  BY <1>7, <1>8, NullAssumption
<1>13. seen' \subseteq Range(age) /\ owed' \subseteq Range(age)
  BY <1>6, <1>7
<1>14. owed' \subseteq Ahead(age, p) /\ \A x \in Ahead(age, p) : x \notin seen'
  BY <1>6, <1>9, <1>10
<1> QED BY <1>8, <1>11, <1>12, <1>13, <1>14 DEF Walked

(* ... and what the walk is given next, or what it was owed at its end. *)
LEMMA NextWalks ==
  ASSUME NEW age, Holds(table, age), Walked(age, iter, seen, owed), GhtNext
  PROVE  /\ Walked(age, iter', seen', owed')
         /\ IF Walking' THEN iter'.p_entry \in Range(age) ELSE owed = {}
<1>1. PICK size \in Positive : table \in TableOf(size) /\ Good(table, age)
  BY HoldsIs
<1>2. /\ age \in Seq(Keys) /\ Len(age) \in Nat /\ Distinct(age)
  BY HeldIs
<1>3. \A i \in 1..Len(age) : table.p_newer[age[i]] = At(age, i + 1)
  BY <1>1 DEF Good, Aged, List
<1>4. PICK p : p = iter.p_next
  OBVIOUS
<1>5. /\ p \in Range(age) \cup {NULL} /\ owed \subseteq Ahead(age, p)
      /\ \A x \in Ahead(age, p) : x \notin seen
  BY <1>4 DEF Walked, GhtNext
<1>a. seen \subseteq Range(age) /\ owed \subseteq Range(age)
  BY DEF Walked
<1>6. CASE p = NULL
  <2>1. iter' = NoIter /\ seen' = {} /\ owed' = {}
    BY <1>4, <1>6 DEF GhtNext, Step
  <2>2. Ahead(age, NULL) = {}
    BY <1>2, RangeIs, NullAssumption DEF Ahead
  <2>3. ~ Walking'
    BY <2>1 DEF Walking, NoIter
  <2> QED BY <1>2, <1>5, <1>6, <2>1, <2>2, <2>3, NotWalked
<1>7. CASE p # NULL
  <2>1. PICK m \in 1..Len(age) : age[m] = p
    BY <1>2, <1>5, <1>7, RangeIs
  <2>2. PICK n : n = At(age, m + 1)
    OBVIOUS
  <2>3. Step = [p_entry |-> p, p_next |-> n] /\ Step # NoIter
    <3>1. Step = [p_entry |-> p, p_next |-> n]
      BY <1>3, <1>4, <1>7, <2>1, <2>2 DEF Step
    <3> QED BY <1>7, <3>1 DEF NoIter
  <2>4. iter' = [p_entry |-> p, p_next |-> n] /\ seen' = seen \cup {p} /\ owed' = owed \ {p}
    BY <2>3 DEF GhtNext
  <2>5. p \in Keys /\ p \in Range(age) /\ n \in Range(age) \cup {NULL} /\ Range(age) \subseteq Keys
    BY <1>2, <1>5, <1>7, <2>2, RangeIs DEF At
  <2>6. \A x \in Ahead(age, p) : x \in {p} \cup Ahead(age, n)
    <3> SUFFICES ASSUME NEW x \in Ahead(age, p), x # p PROVE x \in Ahead(age, n)
      OBVIOUS
    <3>1. PICK i \in 1..Len(age), j \in 1..Len(age) : i <= j /\ age[i] = p /\ age[j] = x
      BY DEF Ahead
    <3>2. i = m
      BY <1>2, <2>1, <3>1 DEF Distinct
    <3>3. j # m
      BY <2>1, <3>1
    <3>4. m + 1 \in 1..Len(age) /\ m + 1 <= j
      BY <1>2, <3>1, <3>2, <3>3
    <3>5. age[m + 1] = n
      BY <2>2, <3>4 DEF At
    <3> QED BY <3>1, <3>4, <3>5 DEF Ahead
  <2>7. \A x \in Ahead(age, n) : x # p /\ x \in Ahead(age, p)
    <3> SUFFICES ASSUME NEW x \in Ahead(age, n) PROVE x # p /\ x \in Ahead(age, p)
      OBVIOUS
    <3>1. PICK i \in 1..Len(age), j \in 1..Len(age) : i <= j /\ age[i] = n /\ age[j] = x
      BY DEF Ahead
    <3>2. n # NULL
      BY <1>2, <3>1, RangeIs, NullAssumption
    <3>3. m + 1 \in 1..Len(age) /\ age[m + 1] = n
      BY <2>2, <3>2 DEF At
    <3>4. i = m + 1
      BY <1>2, <3>1, <3>3 DEF Distinct
    <3>5. m <= j /\ j # m
      BY <1>2, <3>1, <3>4
    <3>6. x # p
      BY <1>2, <2>1, <3>1, <3>5 DEF Distinct
    <3>7. x \in Range(age)
      BY <1>2, <3>1, RangeIs
    <3> QED BY <2>1, <3>1, <3>5, <3>6, <3>7 DEF Ahead
  <2>8. Walking'
    BY <1>7, <2>4 DEF Walking
  <2>9. /\ iter' \in [p_entry : Pointer \cup {FREED}, p_next : Pointer \cup {FREED}]
        /\ iter'.p_next = n /\ iter'.p_entry = p
    BY <2>4, <2>5 DEF Pointer
  <2>10. seen' \subseteq Range(age) /\ owed' \subseteq Range(age)
    BY <1>a, <2>4, <2>5
  <2>11. owed' \subseteq Ahead(age, n) /\ \A x \in Ahead(age, n) : x \notin seen'
    BY <1>5, <2>4, <2>6, <2>7
  <2>a. n # FREED
    BY <2>5, NullAssumption
  <2>12. Walked(age, iter', seen', owed')
    BY <1>7, <2>5, <2>9, <2>a, <2>10, <2>11 DEF Walked
  <2> QED BY <2>5, <2>8, <2>9, <2>12
<1> QED BY <1>6, <1>7

(* After a read of freed memory the walk is lost as before, or over. *)
LEMMA NextFreedWalks ==
  ASSUME NEW age \in Seq(Keys), Walked(age, iter, seen, owed), GhtNextFreed
  PROVE  Walked(age, iter', seen', owed')
<1>1. seen' = {} /\ owed' = {}
  BY DEF Walked, GhtNextFreed
<1>2. CASE iter' = NoIter
  BY <1>1, <1>2, NotWalked
<1>3. CASE iter' = [p_entry |-> FREED, p_next |-> FREED]
  BY <1>1, <1>3, NullAssumption DEF Walked
<1> QED BY <1>2, <1>3 DEF GhtNextFreed

(* A removal that the header allows leaves the iterator's next entry alone. *)
LEMMA RemovalKeepsNext ==
  ASSUME NEW age, Holds(table, age), Walked(age, iter, seen, owed),
         NEW k \in Keys, GhtRemove(k)
  PROVE  iter'.p_next = iter.p_next
<1>1. age \in Seq(Keys) /\ k \notin {NULL, FREED}
  BY HeldIs, NullAssumption
<1>2. Freed({k}, {k}) /\ (Walking => iter.p_next = FREED \/ k \in seen)
  BY DEF GhtRemove, MayRemove
<1>3. iter.p_next # k
  <2> SUFFICES ASSUME iter.p_next = k PROVE FALSE
    OBVIOUS
  <2>1. Walking
    BY <1>1 DEF Walked, Walking
  <2>2. k \in seen
    BY <1>1, <1>2, <2>1
  <2>3. k \in Range(age) /\ k \notin Ahead(age, k)
    BY <1>1, <2>2 DEF Walked
  <2>4. PICK i \in 1..Len(age) : age[i] = k
    BY <1>1, <2>3, RangeIs
  <2>5. i <= i
    BY LenProperties
  <2> QED BY <2>3, <2>4, <2>5 DEF Ahead
<1> QED BY <1>2, <1>3 DEF Freed

(***************************************************************************)
(* The map in insertion order.                                             *)
(***************************************************************************)
Order(age, data) == [i \in DOMAIN age |-> [key |-> age[i], data |-> data[age[i]]]]

Entry == [key : Keys, data : Data]

(* The map a table stands for: its keys by age, each with its data. *)
LEMMA OrderIs ==
  ASSUME NEW age \in Seq(Keys), NEW data, \A k \in Range(age) : data[k] \in Data
  PROVE  /\ Order(age, data) \in Seq(Entry) /\ Len(Order(age, data)) = Len(age)
         /\ \A i \in 1..Len(age) : /\ Order(age, data)[i] = [key |-> age[i], data |-> data[age[i]]]
                                   /\ Order(age, data)[i] \in Entry
<1>1. PICK n : n = Len(age)
  OBVIOUS
<1>2. n \in Nat /\ DOMAIN age = 1..n
  BY <1>1, LenProperties
<1>3. \A i \in 1..n : age[i] \in Keys /\ data[age[i]] \in Data
  BY <1>1, RangeIs
<1>4. PICK o : o = Order(age, data)
  OBVIOUS
<1>5. o = [i \in 1..n |-> [key |-> age[i], data |-> data[age[i]]]]
  BY <1>2, <1>4 DEF Order
<1>6. \A i \in 1..n : o[i] = [key |-> age[i], data |-> data[age[i]]] /\ o[i] \in Entry
  BY <1>3, <1>5 DEF Entry
<1>7. o \in [1..n -> Entry]
  BY <1>5, <1>6
<1>8. o \in Seq(Entry) /\ Len(o) = n
  BY <1>2, <1>7
<1> QED BY <1>1, <1>4, <1>6, <1>8

(* Lists of the same entries with the same data are the same map. *)
LEMMA OrderSame ==
  ASSUME NEW age \in Seq(Keys), NEW d1, NEW d2, \A k \in Range(age) : d1[k] = d2[k]
  PROVE  Order(age, d1) = Order(age, d2)
<1>1. DOMAIN age = 1..Len(age)
  BY LenProperties
<1>2. \A i \in DOMAIN age : d1[age[i]] = d2[age[i]]
  BY <1>1, RangeIs
<1> QED BY <1>2 DEF Order

(* The map without its i-th entry. *)
LEMMA OrderRemoveAt ==
  ASSUME NEW age \in Seq(Keys), NEW data, \A k \in Range(age) : data[k] \in Data,
         NEW i \in 1..Len(age)
  PROVE  Order(RemoveAt(age, i), data) = RemoveAt(Order(age, data), i)
<1>1. PICK now, o, l : now = RemoveAt(age, i) /\ o = Order(age, data) /\ l = Len(age)
  OBVIOUS
<1>2. /\ now \in Seq(Keys) /\ Len(now) = l - 1 /\ l \in Nat
      /\ \A j \in 1..l - 1 : now[j] = IF j < i THEN age[j] ELSE age[j + 1]
  BY <1>1, RemoveAtIs, LenProperties
<1>3. /\ o \in Seq(Entry) /\ Len(o) = l
      /\ \A j \in 1..l : o[j] = [key |-> age[j], data |-> data[age[j]]]
  BY <1>1, OrderIs
<1>4. /\ RemoveAt(o, i) \in Seq(Entry) /\ Len(RemoveAt(o, i)) = l - 1
      /\ \A j \in 1..l - 1 : RemoveAt(o, i)[j] = IF j < i THEN o[j] ELSE o[j + 1]
  <2>1. i \in 1..Len(o) /\ o \in Seq(Entry)
    BY <1>1, <1>3
  <2>2. /\ RemoveAt(o, i) \in Seq(Entry) /\ Len(RemoveAt(o, i)) = Len(o) - 1
        /\ \A j \in 1..Len(o) - 1 : RemoveAt(o, i)[j] = IF j < i THEN o[j] ELSE o[j + 1]
    BY <2>1, RemoveAtIs
  <2> QED BY <1>3, <2>2
<1>5. \A j \in 1..l - 1 : j \in 1..l /\ j + 1 \in 1..l
  BY <1>2
<1>6. \A k \in Range(now) : data[k] \in Data
  <2> SUFFICES ASSUME NEW k \in Range(now) PROVE data[k] \in Data
    OBVIOUS
  <2>1. PICK j \in 1..l - 1 : now[j] = k
    BY <1>2, RangeIs
  <2>2. k = age[j] \/ k = age[j + 1]
    BY <1>2, <2>1
  <2> QED BY <1>1, <1>5, <2>1, <2>2, RangeIs
<1>7. /\ Order(now, data) \in Seq(Entry) /\ Len(Order(now, data)) = l - 1
      /\ \A j \in 1..l - 1 : Order(now, data)[j] = [key |-> now[j], data |-> data[now[j]]]
  BY <1>2, <1>6, OrderIs
<1>8. ASSUME NEW j \in 1..l - 1 PROVE Order(now, data)[j] = RemoveAt(o, i)[j]
  <2>1. PICK m \in 1..l : m = IF j < i THEN j ELSE j + 1
    BY <1>5
  <2>2. now[j] = age[m] /\ RemoveAt(o, i)[j] = o[m]
    BY <1>2, <1>4, <2>1
  <2>3. o[m] = [key |-> age[m], data |-> data[age[m]]]
    BY <1>3
  <2>4. Order(now, data)[j] = [key |-> now[j], data |-> data[now[j]]]
    BY <1>7
  <2> QED BY <2>2, <2>3, <2>4
<1>9. Order(now, data) = RemoveAt(o, i)
  BY <1>4, <1>7, <1>8, SeqEqual
<1> QED BY <1>1, <1>9

(* The map with a new last entry. *)
LEMMA OrderAppend ==
  ASSUME NEW age \in Seq(Keys), NEW data, NEW k \in Keys,
         \A x \in Range(age) \cup {k} : data[x] \in Data
  PROVE  /\ Order(Append(age, k), data) # <<>>
         /\ Last(Order(Append(age, k), data)) = [key |-> k, data |-> data[k]]
         /\ Front(Order(Append(age, k), data)) = Order(age, data)
<1>1. PICK now, o, n, l : /\ now = Append(age, k) /\ o = Order(age, data)
                          /\ n = Order(now, data) /\ l = Len(age)
  OBVIOUS
<1>2. /\ now \in Seq(Keys) /\ Len(now) = l + 1 /\ l \in Nat /\ now[l + 1] = k
      /\ \A j \in 1..l : now[j] = age[j]
  BY <1>1, AppendProperties, LenProperties
<1>3. /\ o \in Seq(Entry) /\ Len(o) = l
      /\ \A j \in 1..l : o[j] = [key |-> age[j], data |-> data[age[j]]]
  BY <1>1, OrderIs
<1>4. \A x \in Range(now) : data[x] \in Data
  <2> SUFFICES ASSUME NEW x \in Range(now) PROVE data[x] \in Data
    OBVIOUS
  <2>1. PICK j \in 1..l + 1 : now[j] = x
    BY <1>2, RangeIs
  <2>2. j = l + 1 \/ j \in 1..l
    BY <1>2
  <2> QED BY <1>1, <1>2, <2>1, <2>2, RangeIs
<1>5. /\ n \in Seq(Entry) /\ Len(n) = l + 1
      /\ \A j \in 1..l + 1 : n[j] = [key |-> now[j], data |-> data[now[j]]] /\ n[j] \in Entry
  <2>1. /\ Order(now, data) \in Seq(Entry) /\ Len(Order(now, data)) = Len(now)
        /\ \A i \in 1..Len(now) : /\ Order(now, data)[i] = [key |-> now[i], data |-> data[now[i]]]
                                  /\ Order(now, data)[i] \in Entry
    BY <1>2, <1>4, OrderIs
  <2> QED BY <1>1, <1>2, <2>1
<1>6. n # <<>> /\ l + 1 \in 1..l + 1
  BY <1>2, <1>5
<1>7. Last(n) = [key |-> k, data |-> data[k]]
  BY <1>2, <1>5, <1>6 DEF Last
<1>8. /\ Front(n) \in Seq(Entry) /\ Len(Front(n)) = l
      /\ \A j \in 1..l : Front(n)[j] = n[j]
  <2>1. \A j \in 1..l : n[j] \in Entry /\ j \in 1..l + 1
    BY <1>2, <1>5
  <2>2. /\ SubSeq(n, 1, l) \in Seq(Entry) /\ Len(SubSeq(n, 1, l)) = IF 1 <= l THEN l - 1 + 1 ELSE 0
        /\ \A j \in 1..l - 1 + 1 : SubSeq(n, 1, l)[j] = n[1 + j - 1]
    BY <1>2, <1>5, <2>1, SubSeqProperties
  <2>3. Front(n) = SubSeq(n, 1, l)
    <3>1. Len(n) - 1 = l
      BY <1>2, <1>5
    <3> QED BY <3>1 DEF Front
  <2>4. \A j \in 1..l : j \in 1..l - 1 + 1 /\ 1 + j - 1 = j
    BY <1>2
  <2>5. Len(SubSeq(n, 1, l)) = l
    BY <1>2, <2>2
  <2> QED BY <2>2, <2>3, <2>4, <2>5
<1>9. \A j \in 1..l : Front(n)[j] = o[j]
  <2>1. \A j \in 1..l : j \in 1..l + 1
    BY <1>2
  <2> QED BY <1>2, <1>3, <1>5, <1>8, <2>1
<1>10. Front(n) = o
  BY <1>3, <1>8, <1>9, SeqEqual
<1> QED BY <1>1, <1>6, <1>7, <1>10

(* The steps. *)
LEMMA AddStep ==
  ASSUME NEW t, NEW u, NEW age, NEW now, Holds(t, age), NEW k \in Keys, NEW d \in Data, NEW out,
         Insertion(t, u, age, now, k, d, out)
  PROVE  Map!Add(Order(age, t.p_data), Order(now, u.p_data))
<1>0. PICK da, db : da = t.p_data /\ db = u.p_data
  OBVIOUS
<1>1. /\ age \in Seq(Keys) /\ Distinct(age) /\ Range(age) \subseteq Keys
      /\ \A x \in Keys : da[x] # NULL <=> x \in Range(age)
      /\ \A x \in Keys : da[x] \in Data \cup {NULL}
  BY <1>0, HeldIs, RangeIs
<1>2. /\ k \notin Range(age) /\ Inserted(age, k, out, now)
      /\ \A x \in Keys : db[x] = IF x = k THEN d ELSE IF x = out THEN NULL ELSE da[x]
  BY <1>0 DEF Insertion
<1>3. \A x \in Range(age) : da[x] \in Data
  BY <1>1
<1>4. PICK o, n : o = Order(age, da) /\ n = Order(now, db)
  OBVIOUS
<1>5. ~ Map!Has(o, k)
  <2>1. /\ o \in Seq(Entry) /\ Len(o) = Len(age)
        /\ \A i \in 1..Len(age) : o[i] = [key |-> age[i], data |-> da[age[i]]]
    BY <1>1, <1>3, <1>4, OrderIs
  <2>2. \A i \in 1..Len(age) : o[i].key # k
    <3> SUFFICES ASSUME NEW i \in 1..Len(age) PROVE o[i].key # k
      OBVIOUS
    <3>1. age[i] \in Range(age)
      BY <1>1, RangeIs
    <3>a. o[i] = [key |-> age[i], data |-> da[age[i]]]
      BY <2>1
    <3>2. o[i].key = age[i]
      BY <3>a
    <3> QED BY <1>2, <3>1, <3>2
  <2>3. Range(o) = {o[i] : i \in 1..Len(age)}
    <3>1. DOMAIN o = 1..Len(age)
      BY <2>1, LenProperties
    <3> QED BY <3>1 DEF Range
  <2> QED BY <2>2, <2>3 DEF Map!Has, Map!Range, Range
<1>6. \E mid \in Seq(Keys) :
        /\ now = Append(mid, k) /\ \A x \in Range(mid) : x \in Range(age) /\ db[x] = da[x]
        /\ Order(mid, da) = o \/ \E i \in DOMAIN o : Order(mid, da) = RemoveAt(o, i)
  <2>1. CASE out = NULL
    <3>1. now = Append(age, k)
      BY <1>2, <2>1 DEF Inserted
    <3>2. \A x \in Range(age) : db[x] = da[x]
      BY <1>1, <1>2, <2>1, NullAssumption
    <3> QED BY <1>1, <1>4, <3>1, <3>2
  <2>2. CASE out # NULL
    <3>1. PICK i \in 1..Len(age) : age[i] = out /\ now = Append(RemoveAt(age, i), k)
      BY <1>2, <2>2 DEF Inserted
    <3>2. PICK mid : mid = RemoveAt(age, i)
      OBVIOUS
    <3>3. mid \in Seq(Keys) /\ Range(mid) = Range(age) \ {out}
      BY <1>1, <3>1, <3>2, RemoveAtIs, RemoveAtDistinct
    <3>4. \A x \in Range(mid) : x \in Range(age) /\ db[x] = da[x]
      BY <1>1, <1>2, <3>3
    <3>5. Order(mid, da) = RemoveAt(o, i)
      BY <1>1, <1>3, <1>4, <3>2, OrderRemoveAt
    <3>6. i \in DOMAIN o
      <4>1. DOMAIN age = 1..Len(age)
        BY <1>1, LenProperties
      <4> QED BY <1>4, <4>1 DEF Order
    <3> QED BY <3>1, <3>2, <3>3, <3>4, <3>5, <3>6
  <2> QED BY <2>1, <2>2
<1>7. PICK mid \in Seq(Keys) :
        /\ now = Append(mid, k) /\ \A x \in Range(mid) : x \in Range(age) /\ db[x] = da[x]
        /\ Order(mid, da) = o \/ \E i \in DOMAIN o : Order(mid, da) = RemoveAt(o, i)
  BY <1>6
<1>8. db[k] = d /\ \A x \in Range(mid) \cup {k} : db[x] \in Data
  BY <1>2, <1>3, <1>7
<1>9. /\ n # <<>> /\ Last(n) = [key |-> k, data |-> d] /\ Front(n) = Order(mid, db)
  BY <1>4, <1>7, <1>8, OrderAppend
<1>10. Order(mid, db) = Order(mid, da)
  BY <1>7, OrderSame
<1>11. Last(n) \in Map!Entry /\ Last(n).key = k
  BY <1>9 DEF Map!Entry
<1>a. Map!Last(n) = Last(n) /\ Map!Front(n) = Front(n)
  BY DEF Map!Last, Map!Front, Last, Front
<1>b. \A i : Map!RemoveAt(o, i) = RemoveAt(o, i)
  BY DEF Map!RemoveAt, RemoveAt
<1>12. Map!Add(o, n)
  BY <1>5, <1>7, <1>9, <1>10, <1>11, <1>a, <1>b DEF Map!Add
<1> QED BY <1>0, <1>4, <1>12

(* An entry taken out is a Drop of the map. *)
LEMMA DropStep ==
  ASSUME NEW t, NEW u, NEW age, Holds(t, age), NEW i \in 1..Len(age),
         \A x \in Keys : u.p_data[x] = IF x = age[i] THEN NULL ELSE t.p_data[x]
  PROVE  Map!Drop(Order(age, t.p_data), Order(RemoveAt(age, i), u.p_data))
<1>0. PICK da, db, now : da = t.p_data /\ db = u.p_data /\ now = RemoveAt(age, i)
  OBVIOUS
<1>1. /\ age \in Seq(Keys) /\ Distinct(age) /\ Range(age) \subseteq Keys
      /\ \A x \in Keys : da[x] # NULL <=> x \in Range(age)
      /\ \A x \in Keys : da[x] \in Data \cup {NULL}
  BY <1>0, HeldIs, RangeIs
<1>2. now \in Seq(Keys) /\ Range(now) = Range(age) \ {age[i]}
  BY <1>0, <1>1, RemoveAtIs, RemoveAtDistinct
<1>3. \A x \in Range(now) : db[x] = da[x]
  BY <1>0, <1>1, <1>2
<1>4. Order(now, db) = Order(now, da)
  BY <1>2, <1>3, OrderSame
<1>5. Order(now, da) = RemoveAt(Order(age, da), i)
  BY <1>0, <1>1, OrderRemoveAt
<1>6. i \in DOMAIN Order(age, da)
  <2>1. DOMAIN age = 1..Len(age)
    BY <1>1, LenProperties
  <2> QED BY <2>1 DEF Order
<1>7. Map!RemoveAt(Order(age, da), i) = RemoveAt(Order(age, da), i)
  BY DEF Map!RemoveAt, RemoveAt
<1> QED BY <1>0, <1>4, <1>5, <1>6, <1>7 DEF Map!Drop

(* New data for a key is a Change of the map. *)
LEMMA ChangeStep ==
  ASSUME NEW t, NEW u, NEW age, Holds(t, age), NEW k \in Range(age), NEW d \in Data,
         \A x \in Keys : u.p_data[x] = IF x = k THEN d ELSE t.p_data[x]
  PROVE  Map!Change(Order(age, t.p_data), Order(age, u.p_data))
<1>0. PICK da, db : da = t.p_data /\ db = u.p_data
  OBVIOUS
<1>1. /\ age \in Seq(Keys) /\ Distinct(age) /\ Range(age) \subseteq Keys
  BY HeldIs, RangeIs
<1>2. DOMAIN age = 1..Len(age) /\ \A i \in 1..Len(age) : age[i] \in Keys
  BY <1>1, LenProperties
<1>3. PICK i \in 1..Len(age) : age[i] = k
  BY <1>1, RangeIs
<1>4. \A x \in Keys : db[x] = IF x = k THEN d ELSE da[x]
  BY <1>0
<1>5. PICK o, n : o = Order(age, da) /\ n = Order(age, db)
  OBVIOUS
<1>6. /\ o = [j \in 1..Len(age) |-> [key |-> age[j], data |-> da[age[j]]]]
      /\ n = [j \in 1..Len(age) |-> [key |-> age[j], data |-> db[age[j]]]]
  BY <1>2, <1>5 DEF Order
<1>7. \A j \in 1..Len(age) : n[j] = IF j = i THEN [o[i] EXCEPT !.data = d] ELSE o[j]
  <2> SUFFICES ASSUME NEW j \in 1..Len(age)
               PROVE  n[j] = IF j = i THEN [o[i] EXCEPT !.data = d] ELSE o[j]
    OBVIOUS
  <2>1. n[j] = [key |-> age[j], data |-> db[age[j]]] /\ o[j] = [key |-> age[j], data |-> da[age[j]]]
    BY <1>6
  <2>2. CASE j = i
    BY <1>2, <1>3, <1>4, <2>1, <2>2
  <2>3. CASE j # i
    <3>1. age[j] # k
      BY <1>1, <1>3, <2>3 DEF Distinct
    <3> QED BY <1>2, <1>4, <2>1, <2>3, <3>1
  <2> QED BY <2>2, <2>3
<1>8. n = [o EXCEPT ![i].data = d] /\ i \in DOMAIN o
  <2>1. [o EXCEPT ![i].data = d] = [o EXCEPT ![i] = [o[i] EXCEPT !.data = d]]
    OBVIOUS
  <2>2. [o EXCEPT ![i] = [o[i] EXCEPT !.data = d]] =
          [j \in 1..Len(age) |-> IF j = i THEN [o[i] EXCEPT !.data = d] ELSE o[j]]
    BY <1>6
  <2>3. n = [j \in 1..Len(age) |-> n[j]]
    BY <1>6
  <2> QED BY <1>6, <1>7, <2>1, <2>2, <2>3
<1>9. d \in Data
  OBVIOUS
<1>10. Map!Change(o, n)
  BY ONLY <1>8, <1>9 DEF Map!Change
<1> QED BY <1>0, <1>5, <1>10

FlagsOK == flags \in [heuristics : Heuristics, rehash : BOOLEAN, limit : Limits \cup {0}]

IInv ==
  /\ Holds(table, ByAge(table))
  /\ FlagsOK
  /\ Walked(ByAge(table), iter, seen, owed)

(* A step that keeps the list by age. *)
LEMMA AgeKept ==
  ASSUME NEW age, Holds(table', age)
  PROVE  Holds(table', ByAge(table')) /\ ByAge(table') = age
<1>1. ByAge(table') = age
  BY HeldIs
<1> QED BY <1>1

(* A limit that is 0 or one of Limits is a natural. *)
LEMMA LimitIs == FlagsOK => flags.limit \in Nat
<1>1. Limits \cup {0} \subseteq Nat
  BY LimitsAssumption
<1>2. FlagsOK => flags.limit \in Limits \cup {0}
  BY DEF FlagsOK
<1> QED BY <1>1, <1>2

(* The invariant.  The table holds what its list by age has, every chain its part
   of it, and a walk that is under way has seen what is older than its iterator. *)
LEMMA Inductive == Spec => []IInv
<1>1. Init => IInv
  <2> SUFFICES ASSUME Init PROVE IInv
    OBVIOUS
  <2>1. PICK size \in Sizes : table = Create(size)
    BY DEF Init
  <2>2. Holds(table, <<>>)
    BY <2>1, CreateHolds
  <2>3. ByAge(table) = <<>>
    BY <2>2, HeldIs
  <2>4. FlagsOK
    BY DEF Init, NewFlags, FlagsOK, Heuristics
  <2>5. Walked(<<>>, iter, seen, owed)
    BY NotWalked, <2>2, HeldIs DEF Init
  <2> QED BY <2>2, <2>3, <2>4, <2>5 DEF IInv
<1>2. IInv /\ [Next]_vars => IInv'
  <2> SUFFICES ASSUME IInv, [Next]_vars PROVE IInv'
    OBVIOUS
  <2>1. PICK age : age = ByAge(table)
    OBVIOUS
  <2>2. /\ Holds(table, age) /\ FlagsOK /\ Walked(age, iter, seen, owed)
        /\ age \in Seq(Keys) /\ Distinct(age)
    BY <2>1, HeldIs DEF IInv
  <2>a. flags.limit \in Nat
    BY <2>2, LimitIs
  <2>b. SUFFICES \E now : Holds(table', now) /\ FlagsOK' /\ Walked(now, iter', seen', owed')
    <3>1. PICK now : Holds(table', now) /\ FlagsOK' /\ Walked(now, iter', seen', owed')
      BY <2>b
    <3>2. ByAge(table') = now
      BY <3>1, AgeKept
    <3> QED BY <3>1, <3>2 DEF IInv
  <2>3. CASE SetFlags
    <3>1. FlagsOK'
      BY <2>2, <2>3 DEF SetFlags, FlagsOK, GhtSetHeuristics, GhtSetRehash, GhtSetBoundedBuckets
    <3> QED BY <2>2, <2>3, <3>1 DEF SetFlags
  <2>4. CASE \E p \in Pairs : GhtInsert(p[1], p[2])
    <3>1. PICK k \in Keys, d \in Data : GhtInsert(k, d)
      <4>1. PICK p \in Pairs : GhtInsert(p[1], p[2])
        BY <2>4
      <4>2. p[1] \in Keys /\ p[2] \in Data
        BY PairsAssumption
      <4> QED BY <4>1, <4>2
    <3>2. PICK out, now :
            /\ Insertion(table, table', age, now, k, d, out)
            /\ Freed({out} \ {NULL}, {out} \ {NULL}) \/ Freed(Keys, {out} \ {NULL})
            /\ flags' = flags
      BY <2>2, <2>a, <3>1, InsertHolds
    <3>3. Holds(table', now) /\ Inserted(age, k, out, now)
      BY <3>2 DEF Insertion
    <3>4. now \in Seq(Keys)
      BY <3>3, HeldIs
    <3>5. PICK gone : gone = {out} \ {NULL}
      OBVIOUS
    <3>6. Keeps(age, now, gone)
      BY <2>2, <3>3, <3>4, <3>5, KeepsInserted
    <3>a. Distinct(now)
      BY <3>3, HeldIs
    <3>7. gone \subseteq Keys
      BY <2>2, <3>3, <3>5, RangeIs DEF Inserted
    <3>8. PICK freed \in SUBSET Keys : gone \subseteq freed /\ Freed(freed, gone)
      BY <3>2, <3>5, <3>7
    <3>9. Walked(now, iter', seen', owed')
      BY <2>2, <3>4, <3>6, <3>a, <3>8, WalkGoesOn
    <3> QED BY <2>2, <3>2, <3>3, <3>9 DEF FlagsOK
  <2>5. CASE \E k \in Keys : GhtGet(k)
    <3>1. PICK k \in Keys : GhtGet(k)
      BY <2>5
    <3>2. Holds(table', age)
      BY <2>2, <3>1, GetHolds DEF GhtGet
    <3> QED BY <2>2, <3>1, <3>2 DEF GhtGet, FlagsOK
  <2>6. CASE \E p \in Pairs : GhtReplace(p[1], p[2])
    <3>1. PICK k \in Keys, d \in Data : GhtReplace(k, d)
      <4>1. PICK p \in Pairs : GhtReplace(p[1], p[2])
        BY <2>6
      <4>2. p[1] \in Keys /\ p[2] \in Data
        BY PairsAssumption
      <4> QED BY <4>1, <4>2
    <3>2. PICK t : t = Search(table, k)
      OBVIOUS
    <3>3. Found(table, k) /\ table' = [t EXCEPT !.p_data[k] = d]
      BY <3>1, <3>2 DEF GhtReplace
    <3>4. Holds(t, age) /\ k \in Range(age)
      BY <2>2, <3>2, <3>3, GetHolds, HeldIs
    <3>5. Holds([t EXCEPT !.p_data[k] = d], age)
      BY <3>4, DataHolds
    <3> QED BY <2>2, <3>1, <3>3, <3>5 DEF GhtReplace, FlagsOK
  <2>7. CASE \E k \in Keys : GhtRemove(k)
    <3>1. PICK k \in Keys : GhtRemove(k)
      BY <2>7
    <3>2. PICK i \in 1..Len(age) : age[i] = k /\ Holds(table', RemoveAt(age, i))
      BY <2>2, <3>1, RemoveHolds
    <3>3. PICK now : now = RemoveAt(age, i)
      OBVIOUS
    <3>4. now \in Seq(Keys) /\ Distinct(now) /\ Keeps(age, now, {k})
      BY <2>2, <3>2, <3>3, HeldIs, RemoveAtIs, KeepsRemoveAt
    <3>5. Freed({k}, {k}) /\ flags' = flags
      BY <3>1 DEF GhtRemove
    <3>6. Walked(now, iter', seen', owed')
      BY <2>2, <3>4, <3>5, WalkGoesOn
    <3> QED BY <2>2, <3>2, <3>3, <3>5, <3>6 DEF FlagsOK
  <2>8. CASE \E size \in Sizes : GhtRehash(size)
    <3>1. PICK size \in Sizes : GhtRehash(size)
      BY <2>8
    <3>2. Holds(table', age) /\ Freed(Keys, {}) /\ flags' = flags
      BY <2>2, <3>1, RehashHolds DEF GhtRehash
    <3>3. Keeps(age, age, {})
      BY DEF Keeps
    <3>4. Walked(age, iter', seen', owed')
      BY <2>2, <3>2, <3>3, WalkGoesOn
    <3> QED BY <2>2, <3>2, <3>4 DEF FlagsOK
  <2>9. CASE GhtFirst
    <3>1. table' = table /\ flags' = flags
      BY <2>9 DEF GhtFirst
    <3>2. Walked(age, iter', seen', owed')
      BY <2>2, <2>9, FirstWalks
    <3> QED BY <2>2, <3>1, <3>2 DEF FlagsOK
  <2>10. CASE GhtNext
    <3>1. table' = table /\ flags' = flags
      BY <2>10 DEF GhtNext
    <3>2. Walked(age, iter', seen', owed')
      BY <2>2, <2>10, NextWalks
    <3> QED BY <2>2, <3>1, <3>2 DEF FlagsOK
  <2>c. CASE GhtNextFreed
    <3>1. table' = table /\ flags' = flags
      BY <2>c DEF GhtNextFreed
    <3>2. Walked(age, iter', seen', owed')
      BY <2>2, <2>c, NextFreedWalks
    <3> QED BY <2>2, <3>1, <3>2 DEF FlagsOK
  <2>11. CASE \E size \in Sizes : GhtFinalize(size)
    <3>1. PICK size \in Sizes : GhtFinalize(size)
      BY <2>11
    <3>2. Holds(table', <<>>)
      BY <2>2, <3>1, FinalizeHolds, CreateHolds
    <3>3. FlagsOK' /\ Walked(<<>>, iter', seen', owed')
      BY <3>1, <3>2, HeldIs, NotWalked DEF GhtFinalize, FlagsOK, NewFlags, Heuristics
    <3> QED BY <3>2, <3>3
  <2>12. CASE UNCHANGED vars
    BY <2>2, <2>12 DEF vars, FlagsOK
  <2> QED BY <2>3, <2>4, <2>5, <2>6, <2>7, <2>8, <2>9, <2>10, <2>c, <2>11, <2>12 DEF Next
<1> QED BY <1>1, <1>2, PTL DEF Spec

-----------------------------------------------------------------------------
(* The table, its flags, the iterator and the record of a walk have their types
   in every state, for any keys, hashes, sizes and limits of ght_create and the
   setters. *)
THEOREM TypeCorrect == Spec => []TypeOK
<1>1. IInv => TypeOK
  <2> SUFFICES ASSUME IInv PROVE TypeOK
    OBVIOUS
  <2>1. PICK age : age = ByAge(table) /\ Holds(table, age)
    BY DEF IInv
  <2>2. PICK i \in 0..30 : table \in TableOf(2^i) /\ Good(table, age)
    BY <2>1 DEF Holds
  <2>3. PICK size : size = 2^i /\ table.i_size = size /\ size \in Positive
    BY <2>2, SizesPositive, TableIs
  <2>4. \A s : s \in Seq(Keys) /\ Distinct(s) => Len(s) \in 0..Cardinality(Keys)
    BY DistinctLen, AtIs, KeysAssumption, FS_CardinalityType
  <2>5. table.i_items \in 0..Cardinality(Keys)
    BY <2>1, <2>2, <2>4, HeldIs DEF Good
  <2>6. table.p_nr \in [0..table.i_size - 1 -> 0..Cardinality(Keys)]
    <3>1. table.p_nr \in [0..size - 1 -> Nat]
      BY <2>2, <2>3, TableIs
    <3>2. \A b \in 0..size - 1 : table.p_nr[b] \in 0..Cardinality(Keys)
      <4> SUFFICES ASSUME NEW b \in 0..size - 1 PROVE table.p_nr[b] \in 0..Cardinality(Keys)
        OBVIOUS
      <4>1. Chained(table, b, Chain(table, b)) /\ table.p_nr[b] = Len(Chain(table, b))
        BY <2>2, <2>3, GoodIs
      <4> QED BY <2>4, <4>1 DEF Chained, List
    <3> QED BY <2>3, <3>1, <3>2
  <2>7. /\ table.pp_entries \in [0..table.i_size - 1 -> Pointer]
        /\ {table.p_oldest, table.p_newest} \subseteq Pointer
        /\ table.p_data \in [Keys -> Data \cup {NULL}]
    BY <2>2, <2>3, TableIs
  <2>a. \A f \in {table.p_next, table.p_prev, table.p_older, table.p_newer} :
          f \in [Keys -> Pointer]
    BY <2>2, TableIs DEF Links
  <2>8. \E j \in 0..30 : table.i_size = 2^j
    BY <2>3
  <2>9. /\ flags \in [heuristics : Heuristics, rehash : BOOLEAN, limit : Limits \cup {0}]
        /\ iter \in [p_entry : Pointer \cup {FREED}, p_next : Pointer \cup {FREED}]
    BY DEF IInv, FlagsOK, Walked
  <2>b. Range(age) \subseteq Keys
    BY <2>1, HeldIs, RangeIs
  <2>10. seen \subseteq Keys /\ owed \subseteq Keys
    BY <2>1, <2>b DEF IInv, Walked
  <2> QED BY <2>5, <2>6, <2>7, <2>a, <2>8, <2>9, <2>10 DEF TypeOK
<1> QED BY <1>1, Inductive, PTL

(* After every call of ght_hash_table.c each chain and the list by age are
   doubly linked, with the same entries in both directions, and the chains have
   the entries of the list by age, each in the bucket of its hash. *)
THEOREM ListsLinked == Spec => []Linked
<1>1. IInv => Linked
  <2> SUFFICES ASSUME IInv PROVE Linked
    OBVIOUS
  <2>1. PICK age : age = ByAge(table) /\ Holds(table, age)
    BY DEF IInv
  <2>2. PICK size \in Positive : table \in TableOf(size) /\ Good(table, age)
    BY <2>1, HoldsIs
  <2>3. table.i_size = size
    BY <2>2, TableIs
  <2>4. age \in Seq(Keys) /\ Distinct(age) /\ Range(age) \subseteq Keys
    BY <2>1, HeldIs, RangeIs
  <2>5. Follow(table.p_older, table.p_newest) = Reverse(age)
    BY <2>2, AgedIs DEF Good
  <2>6. Cardinality(Range(age)) = table.i_items
    BY <2>2, <2>4, DistinctLen DEF Good
  <2>7. ASSUME NEW b \in 0..size - 1, NEW s, s = Chain(table, b)
        PROVE  /\ Range(s) = {k \in Range(age) : Bucket(table, k) = b}
               /\ Len(s) = table.p_nr[b] /\ Len(s) = Cardinality(Range(s))
               /\ \A i \in 1..Len(s) : table.p_prev[s[i]] = IF i = 1 THEN NULL ELSE s[i - 1]
    <3>1. /\ Chained(table, b, s) /\ table.p_nr[b] = Len(s)
          /\ \A k \in Keys : k \in Range(s) <=> k \in Range(age) /\ Bucket(table, k) = b
      BY <2>2, <2>7, GoodIs
    <3>2. s \in Seq(Keys) /\ Distinct(s) /\ Range(s) \subseteq Keys
      BY <3>1, RangeIs DEF Chained, List
    <3>3. Range(s) = {k \in Range(age) : Bucket(table, k) = b}
      BY <2>4, <3>1, <3>2
    <3>4. Len(s) = Cardinality(Range(s)) /\ Len(s) \in Nat
      BY <3>2, DistinctLen, AtIs
    <3>5. \A i \in 1..Len(s) : table.p_prev[s[i]] = At(s, i - 1)
      BY <3>1 DEF Chained, List
    <3>6. \A i \in 1..Len(s) : At(s, i - 1) = IF i = 1 THEN NULL ELSE s[i - 1]
      BY <3>4 DEF At
    <3> QED BY <3>1, <3>3, <3>4, <3>5, <3>6
  <2> QED BY <2>1, <2>3, <2>5, <2>6, <2>7 DEF Linked
<1> QED BY <1>1, Inductive, PTL

(* No entry that the table lost, in ght_remove, ght_rehash, ght_finalize or an
   eviction, keeps its data: each was freed. *)
THEOREM NothingLeaks == Spec => []NoLeaks
<1>1. IInv => NoLeaks
  <2> SUFFICES ASSUME IInv PROVE NoLeaks
    OBVIOUS
  <2>1. PICK age : age = ByAge(table) /\ Holds(table, age)
    BY DEF IInv
  <2>2. Range(age) \subseteq Keys /\ \A k \in Keys : table.p_data[k] # NULL <=> k \in Range(age)
    BY <2>1, HeldIs, RangeIs
  <2> QED BY <2>1, <2>2 DEF NoLeaks
<1> QED BY <1>1, Inductive, PTL

(* As long as its iterator does not lead to an entry that an insertion or
   ght_rehash freed, a walk is given entries of the table, and at its end was given
   every one that was there from ght_first on, whatever was looked up, inserted or
   removed in between. *)
THEOREM WalksComplete == Spec => WalkComplete
<1>1. IInv /\ [Next]_vars =>
        [GhtNext => IF Walking' THEN iter'.p_entry \in Range(ByAge(table)) ELSE owed = {}]_vars
  BY NextWalks DEF IInv
<1> QED BY <1>1, Inductive, PTL DEF Spec, WalkComplete

(* Removing entries a walk was given never frees the one its iterator leads to:
   the iterator is always ahead of all it has given. *)
THEOREM RemovalsAreSafe == Spec => RemovalIsSafe
<1>1. IInv /\ [Next]_vars =>
        [(\E k \in Keys : GhtRemove(k)) => iter'.p_next = iter.p_next]_vars
  BY RemovalKeepsNext DEF IInv
<1> QED BY <1>1, Inductive, PTL DEF Spec, RemovalIsSafe

(* The list by age is a map in insertion order: GhtHashTable implements
   OrderedMap, so no lookup, rehash or reordering of a chain adds, loses or moves
   an entry. *)
THEOREM KeepsInsertionOrder == Spec => KeepsOrder
<1> DEFINE order == Order(ByAge(table), table.p_data)
<1>1. Init => order = <<>>
  <2> SUFFICES ASSUME Init PROVE order = <<>>
    OBVIOUS
  <2>1. PICK size \in Sizes : table = Create(size)
    BY DEF Init
  <2>2. ByAge(table) = <<>>
    BY <2>1, CreateHolds, HeldIs
  <2> QED BY <2>2 DEF Order
<1>2. IInv /\ [Next]_vars => (\/ Map!Add(order, order') \/ Map!Change(order, order')
                              \/ Map!Drop(order, order') \/ Map!Clear(order')
                              \/ order' = order)
  <2> SUFFICES ASSUME IInv, [Next]_vars
               PROVE  \/ Map!Add(order, order') \/ Map!Change(order, order')
                      \/ Map!Drop(order, order') \/ Map!Clear(order') \/ order' = order
    OBVIOUS
  <2>1. PICK age : age = ByAge(table)
    OBVIOUS
  <2>2. /\ Holds(table, age) /\ age \in Seq(Keys) /\ Distinct(age)
        /\ order = Order(age, table.p_data)
    BY <2>1, HeldIs DEF IInv
  <2>a. flags.limit \in Nat
    BY LimitIs DEF IInv
  <2>b. \A now : Holds(table', now) => order' = Order(now, table'.p_data)
    BY AgeKept
  <2> HIDE DEF order
  <2>3. CASE SetFlags \/ GhtFirst \/ GhtNext \/ GhtNextFreed \/ UNCHANGED vars
    <3>1. table' = table
      BY <2>3 DEF SetFlags, GhtFirst, GhtNext, GhtNextFreed, vars
    <3> QED BY <2>2, <2>b, <3>1
  <2>4. CASE \E p \in Pairs : GhtInsert(p[1], p[2])
    <3>1. PICK k \in Keys, d \in Data : GhtInsert(k, d)
      <4>1. PICK p \in Pairs : GhtInsert(p[1], p[2])
        BY <2>4
      <4>2. p[1] \in Keys /\ p[2] \in Data
        BY PairsAssumption
      <4> QED BY <4>1, <4>2
    <3>2. PICK out, now : Insertion(table, table', age, now, k, d, out)
      BY <2>2, <2>a, <3>1, InsertHolds
    <3>3. Map!Add(Order(age, table.p_data), Order(now, table'.p_data))
      BY <2>2, <3>2, AddStep
    <3>4. order' = Order(now, table'.p_data)
      BY <2>b, <3>2 DEF Insertion
    <3> QED BY <2>2, <3>3, <3>4
  <2>5. CASE \E k \in Keys : GhtGet(k)
    <3>1. PICK k \in Keys : GhtGet(k)
      BY <2>5
    <3>2. Holds(table', age) /\ table'.p_data = table.p_data
      BY <2>2, <3>1, GetHolds DEF GhtGet
    <3> QED BY <2>2, <2>b, <3>2
  <2>6. CASE \E p \in Pairs : GhtReplace(p[1], p[2])
    <3>1. PICK k \in Keys, d \in Data : GhtReplace(k, d)
      <4>1. PICK p \in Pairs : GhtReplace(p[1], p[2])
        BY <2>6
      <4>2. p[1] \in Keys /\ p[2] \in Data
        BY PairsAssumption
      <4> QED BY <4>1, <4>2
    <3>2. PICK t, u : t = Search(table, k) /\ u = [t EXCEPT !.p_data[k] = d]
      OBVIOUS
    <3>3. Found(table, k) /\ table' = u
      BY <3>1, <3>2 DEF GhtReplace
    <3>4. Holds(t, age) /\ t.p_data = table.p_data /\ k \in Range(age)
      BY <2>2, <3>2, <3>3, GetHolds, HeldIs
    <3>5. Holds(u, age) /\ \A x \in Keys : u.p_data[x] = IF x = k THEN d ELSE t.p_data[x]
      BY <3>2, <3>4, DataHolds
    <3>6. Map!Change(Order(age, t.p_data), Order(age, u.p_data))
      BY <3>4, <3>5, ChangeStep
    <3>7. order' = Order(age, u.p_data)
      BY <2>b, <3>3, <3>5
    <3> QED BY <2>2, <3>4, <3>6, <3>7
  <2>7. CASE \E k \in Keys : GhtRemove(k)
    <3>1. PICK k \in Keys : GhtRemove(k)
      BY <2>7
    <3>2. PICK i \in 1..Len(age) :
            /\ age[i] = k /\ Holds(table', RemoveAt(age, i))
            /\ \A x \in Keys : table'.p_data[x] = IF x = k THEN NULL ELSE table.p_data[x]
      BY <2>2, <3>1, RemoveHolds
    <3>3. Map!Drop(Order(age, table.p_data), Order(RemoveAt(age, i), table'.p_data))
      BY <2>2, <3>2, DropStep
    <3>4. order' = Order(RemoveAt(age, i), table'.p_data)
      BY <2>b, <3>2
    <3> QED BY <2>2, <3>3, <3>4
  <2>8. CASE \E size \in Sizes : GhtRehash(size)
    <3>1. PICK size \in Sizes : GhtRehash(size)
      BY <2>8
    <3>2. Holds(table', age) /\ table'.p_data = table.p_data
      BY <2>2, <3>1, RehashHolds DEF GhtRehash
    <3> QED BY <2>2, <2>b, <3>2
  <2>9. CASE \E size \in Sizes : GhtFinalize(size)
    <3>1. PICK size \in Sizes : GhtFinalize(size)
      BY <2>9
    <3>2. Holds(table', <<>>)
      BY <2>2, <3>1, FinalizeHolds, CreateHolds
    <3>3. order' = Order(<<>>, table'.p_data)
      BY <2>b, <3>2
    <3>4. order' = <<>>
      BY <3>3 DEF Order
    <3> QED BY <3>4 DEF Map!Clear
  <2> QED BY <2>3, <2>4, <2>5, <2>6, <2>7, <2>8, <2>9 DEF Next
<1>3. order = [i \in DOMAIN ByAge(table) |-> [key |-> ByAge(table)[i],
                                             data |-> table.p_data[ByAge(table)[i]]]]
  BY DEF Order
<1>4. Init => Map!Init
  BY <1>1, <1>3 DEF Map!Init
<1>5. IInv /\ [Next]_vars => [Map!Next]_([i \in DOMAIN ByAge(table) |->
        [key |-> ByAge(table)[i], data |-> table.p_data[ByAge(table)[i]]]])
  <2> SUFFICES ASSUME IInv, [Next]_vars, order' # order PROVE Map!Next
    BY DEF Order
  <2>1. PICK o, n : o = order /\ n = order'
    OBVIOUS
  <2>2. Map!Add(o, n) \/ Map!Change(o, n) \/ Map!Drop(o, n) \/ Map!Clear(n)
    BY <1>2, <2>1
  <2> QED BY <2>1, <2>2 DEF Map!Next, Order
<1> QED BY <1>4, <1>5, Inductive, PTL DEF Spec, KeepsOrder, Map!Spec
=============================================================================
