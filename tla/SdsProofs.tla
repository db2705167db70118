----------------------------- MODULE SdsProofs ------------------------------
(***************************************************************************)
(* Proofs about Sds, for ints and size_t of any width, any strings and any *)
(* lengths callers pass: what the functions keep of a string (Good), one   *)
(* lemma for each; that sums of memory do not depend on their order; the   *)
(* invariant that follows (IInv) and the four properties of the run.       *)
(***************************************************************************)
EXTENDS Sds, SequenceTheorems, FiniteSetTheorems, TLAPS

-----------------------------------------------------------------------------
(* Induction, as a fact about sets of naturals. *)

LEMMA Smallest ==
  ASSUME NEW T \in SUBSET Nat, T # {}
  PROVE  \E x \in T : \A y \in T : x <= y
<1> DEFINE R == OpToRel(<, Nat)
<1>1. IsWellFoundedOn(R, Nat)
  BY NatLessThanWellFounded
<1>2. \A x, y \in Nat : x < y => <<x, y>> \in R
  BY DEF OpToRel
<1> HIDE DEF R
<1>3. PICK x \in T : \A y \in T : ~ (<<y, x>> \in R)
  BY <1>1, WFMin
<1>4. \A y \in T : ~ (y < x)
  BY <1>2, <1>3
<1> QED BY <1>4

LEMMA Induction ==
  ASSUME NEW S, 0 \in S, \A n \in Nat : n \in S => n + 1 \in S
  PROVE  Nat \subseteq S
<1> DEFINE T == Nat \ S
<1>1. SUFFICES ASSUME T # {} PROVE FALSE
  OBVIOUS
<1>2. PICK x \in T : \A y \in T : x <= y
  BY <1>1, Smallest
<1>3. x # 0 /\ x - 1 \in Nat /\ x - 1 \notin T
  BY <1>2
<1> QED BY <1>3

-----------------------------------------------------------------------------
(***************************************************************************)
(* Sums.  FoldFunction takes the elements of a set in an order that CHOOSE *)
(* gives; the lemmas say that the order does not matter.                   *)
(***************************************************************************)
Total(f)   == FoldFunction(+, 0, f)
Less(f, n) == [m \in DOMAIN f \ {n} |-> f[m]]

One(s) == CHOOSE x \in s : TRUE

(* c[s] is the sum of f over s, for the sets s of D. *)
Sums(f, D, c) ==
  \A s \in D : c[s] = IF s = {} THEN 0 ELSE f[One(s)] + c[s \ {One(s)}]

Upto(S, n) == {s \in SUBSET S : Cardinality(s) <= n}

LEMMA OneIs ==
  ASSUME NEW S, IsFiniteSet(S), NEW s \in SUBSET S, s # {}
  PROVE  /\ One(s) \in s /\ s \ {One(s)} \in SUBSET S
         /\ Cardinality(s \ {One(s)}) = Cardinality(s) - 1
         /\ Cardinality(s) \in Nat \ {0}
<1>1. One(s) \in s
  BY DEF One
<1>2. IsFiniteSet(s) /\ Cardinality(s) \in Nat
  BY FS_Subset, FS_CardinalityType
<1>3. Cardinality(s \ {One(s)}) = Cardinality(s) - 1
  BY <1>1, <1>2, FS_RemoveElement
<1>4. Cardinality(s) # 0
  BY <1>2, FS_EmptySet
<1> QED BY <1>1, <1>2, <1>3, <1>4

LEMMA SumsStep ==
  ASSUME NEW S, IsFiniteSet(S), NEW f \in [S -> Nat], NEW n \in Nat,
         NEW c \in [Upto(S, n) -> Nat], Sums(f, Upto(S, n), c)
  PROVE  \E d \in [Upto(S, n + 1) -> Nat] : Sums(f, Upto(S, n + 1), d)
<1> DEFINE Next1(s) == IF s = {} THEN 0 ELSE f[One(s)] + c[s \ {One(s)}]
           d == [s \in Upto(S, n + 1) |-> Next1(s)]
<1>1. ASSUME NEW s \in Upto(S, n + 1), s # {}
      PROVE  One(s) \in S /\ s \ {One(s)} \in Upto(S, n)
  <2>1. s \in SUBSET S /\ Cardinality(s) <= n + 1
    BY DEF Upto
  <2>2. /\ One(s) \in s /\ s \ {One(s)} \in SUBSET S
        /\ Cardinality(s \ {One(s)}) = Cardinality(s) - 1
        /\ Cardinality(s) \in Nat \ {0}
    BY <1>1, <2>1, OneIs
  <2> QED BY <2>1, <2>2 DEF Upto
<1>2. ASSUME NEW s \in Upto(S, n + 1) PROVE Next1(s) \in Nat
  BY <1>1
<1>3. d \in [Upto(S, n + 1) -> Nat] /\ \A s \in Upto(S, n + 1) : d[s] = Next1(s)
  BY <1>2
<1>4. \A s \in Upto(S, n) : s \in Upto(S, n + 1)
  <2>1. \A s \in SUBSET S : Cardinality(s) \in Nat
    BY FS_Subset, FS_CardinalityType
  <2> QED BY <2>1 DEF Upto
<1>5. \A s \in Upto(S, n) : d[s] = c[s]
  BY <1>3, <1>4 DEF Sums
<1> HIDE DEF d
<1>6. ASSUME NEW s \in Upto(S, n + 1)
      PROVE  d[s] = IF s = {} THEN 0 ELSE f[One(s)] + d[s \ {One(s)}]
  BY <1>1, <1>3, <1>5
<1> QED BY <1>3, <1>6 DEF Sums

LEMMA SumsExist ==
  ASSUME NEW S, IsFiniteSet(S), NEW f \in [S -> Nat]
  PROVE  \E c \in [SUBSET S -> Nat] : Sums(f, SUBSET S, c)
<1> DEFINE P(n) == \E c \in [Upto(S, n) -> Nat] : Sums(f, Upto(S, n), c)
           I == {n \in Nat : P(n)}
<1>0. \A s \in SUBSET S : Cardinality(s) \in Nat /\ Cardinality(s) <= Cardinality(S)
  BY FS_Subset, FS_CardinalityType
<1>1. P(0)
  <2> DEFINE e == [s \in Upto(S, 0) |-> 0]
  <2>1. ASSUME NEW s \in Upto(S, 0) PROVE s = {}
    <3>1. s \in SUBSET S /\ Cardinality(s) = 0
      BY <1>0 DEF Upto
    <3>2. IsFiniteSet(s)
      BY <3>1, FS_Subset
    <3> QED BY <3>1, <3>2, FS_EmptySet
  <2>2. e \in [Upto(S, 0) -> Nat] /\ \A s \in Upto(S, 0) : e[s] = 0
    OBVIOUS
  <2> QED BY <2>1, <2>2 DEF Sums
<1>2. ASSUME NEW n \in Nat, P(n) PROVE P(n + 1)
  BY <1>2, SumsStep
<1> HIDE DEF P
<1>3. 0 \in I /\ \A n \in Nat : n \in I => n + 1 \in I
  BY <1>1, <1>2
<1> HIDE DEF I
<1>4. Cardinality(S) \in Nat
  BY FS_CardinalityType
<1>5. Cardinality(S) \in I
  BY <1>3, <1>4, Induction
<1> USE DEF I, P
<1>6. Upto(S, Cardinality(S)) = SUBSET S
  BY <1>0 DEF Upto
<1> QED BY <1>5, <1>6

(* c and d are sums of f and g, which are the same on U. *)
Agreeing(U, S, T, f, g, c, d) ==
  /\ IsFiniteSet(U) /\ U \subseteq S /\ U \subseteq T
  /\ \A x \in U : f[x] = g[x]
  /\ Sums(f, SUBSET S, c) /\ Sums(g, SUBSET T, d)

LEMMA Agree ==
  ASSUME NEW U, NEW S, NEW T, NEW f, NEW g, NEW c, NEW d, Agreeing(U, S, T, f, g, c, d)
  PROVE  c[U] = d[U]
<1> SUFFICES ASSUME IsFiniteSet(U), U \subseteq S, U \subseteq T,
                    \A x \in U : f[x] = g[x],
                    Sums(f, SUBSET S, c), Sums(g, SUBSET T, d)
             PROVE  c[U] = d[U]
  BY DEF Agreeing
<1> DEFINE P(n) == \A s \in Upto(U, n) : c[s] = d[s]
           I == {n \in Nat : P(n)}
<1>1. ASSUME NEW s \in SUBSET U
      PROVE  /\ s \in SUBSET S /\ s \in SUBSET T
             /\ c[s] = IF s = {} THEN 0 ELSE f[One(s)] + c[s \ {One(s)}]
             /\ d[s] = IF s = {} THEN 0 ELSE g[One(s)] + d[s \ {One(s)}]
  <2>1. s \in SUBSET S /\ s \in SUBSET T
    OBVIOUS
  <2> QED BY <2>1 DEF Sums
<1>2. \A s \in SUBSET U : Cardinality(s) \in Nat /\ Cardinality(s) <= Cardinality(U)
  BY FS_Subset, FS_CardinalityType
<1>3. ASSUME NEW n \in Nat, NEW s \in Upto(U, n), s # {}
      PROVE  n # 0 /\ s \ {One(s)} \in Upto(U, n - 1) /\ f[One(s)] = g[One(s)]
  <2>1. s \in SUBSET U /\ Cardinality(s) <= n
    BY DEF Upto
  <2>2. /\ One(s) \in s /\ s \ {One(s)} \in SUBSET U
        /\ Cardinality(s \ {One(s)}) = Cardinality(s) - 1
        /\ Cardinality(s) \in Nat \ {0}
    BY <1>3, <2>1, OneIs
  <2> QED BY <2>1, <2>2 DEF Upto
<1>4. P(0)
  <2> SUFFICES ASSUME NEW s \in Upto(U, 0) PROVE c[s] = d[s]
    OBVIOUS
  <2>1. s = {} /\ s \in SUBSET U
    BY <1>3 DEF Upto
  <2> QED BY <1>1, <2>1
<1>5. ASSUME NEW n \in Nat, P(n) PROVE P(n + 1)
  <2> SUFFICES ASSUME NEW s \in Upto(U, n + 1) PROVE c[s] = d[s]
    OBVIOUS
  <2>1. s \in SUBSET U
    BY DEF Upto
  <2>2. CASE s = {}
    BY <1>1, <2>1, <2>2
  <2>3. CASE s # {}
    <3>1. n + 1 - 1 = n
      OBVIOUS
    <3>2. s \ {One(s)} \in Upto(U, n) /\ f[One(s)] = g[One(s)]
      BY <1>3, <2>3, <3>1
    <3>3. c[s \ {One(s)}] = d[s \ {One(s)}]
      BY <1>5, <3>2
    <3> QED BY <1>1, <2>1, <2>3, <3>2, <3>3
  <2> QED BY <2>2, <2>3
<1> HIDE DEF P
<1>6. 0 \in I /\ \A n \in Nat : n \in I => n + 1 \in I
  BY <1>4, <1>5
<1> HIDE DEF I
<1>7. Cardinality(U) \in Nat
  BY FS_CardinalityType
<1>8. Cardinality(U) \in I
  BY <1>6, <1>7, Induction
<1> USE DEF I, P
<1>9. U \in Upto(U, Cardinality(U))
  BY <1>2 DEF Upto
<1> QED BY <1>8, <1>9

LEMMA TotalIs ==
  ASSUME NEW S, IsFiniteSet(S), NEW f \in [S -> Nat]
  PROVE  \E c \in [SUBSET S -> Nat] : Sums(f, SUBSET S, c) /\ Total(f) = c[S]
<1> DEFINE F(g) == [s \in SUBSET S |-> IF s = {} THEN 0 ELSE f[One(s)] + g[s \ {One(s)}]]
           c == CHOOSE g : g = F(g)
<1>1. Total(f) = c[S]
  <2>1. DOMAIN f = S
    OBVIOUS
  <2> QED BY <2>1 DEF Total, FoldFunction, FoldFunctionOnSet, MapThenFoldSet, One
<1>2. PICK w \in [SUBSET S -> Nat] : Sums(f, SUBSET S, w)
  BY SumsExist
<1>3. w = F(w)
  BY <1>2 DEF Sums
<1>4. c = F(c)
  BY <1>3
<1> HIDE DEF c
<1>5. \A s \in SUBSET S : c[s] = IF s = {} THEN 0 ELSE f[One(s)] + c[s \ {One(s)}]
  BY <1>4
<1>6. Sums(f, SUBSET S, c)
  BY <1>5 DEF Sums
<1>7. ASSUME NEW s \in SUBSET S PROVE c[s] = w[s]
  <2>1. IsFiniteSet(s)
    BY FS_Subset
  <2>2. Agreeing(s, S, S, f, f, c, w)
    BY <1>2, <1>6, <2>1 DEF Agreeing
  <2> QED BY ONLY <2>2, Agree
<1>8. c = [s \in SUBSET S |-> c[s]]
  BY <1>4
<1>9. c \in [SUBSET S -> Nat]
  BY <1>7, <1>8
<1> QED BY <1>1, <1>6, <1>9

LEMMA TotalUnfold ==
  ASSUME NEW S, IsFiniteSet(S), NEW f \in [S -> Nat]
  PROVE  /\ Total(f) \in Nat
         /\ S = {} => Total(f) = 0
         /\ S # {} => Total(f) = f[One(S)] + Total(Less(f, One(S)))
<1>1. PICK c \in [SUBSET S -> Nat] : Sums(f, SUBSET S, c) /\ Total(f) = c[S]
  BY TotalIs
<1>2. c[S] \in Nat
  OBVIOUS
<1>3. c[S] = IF S = {} THEN 0 ELSE f[One(S)] + c[S \ {One(S)}]
  BY <1>1 DEF Sums
<1>4. ASSUME S # {} PROVE Total(Less(f, One(S))) = c[S \ {One(S)}]
  <2>0. PICK T, g : T = S \ {One(S)} /\ g = Less(f, One(S))
    OBVIOUS
  <2>1. IsFiniteSet(T)
    BY <2>0, FS_RemoveElement
  <2>2. g \in [T -> Nat] /\ \A x \in T : g[x] = f[x]
    BY <2>0 DEF Less
  <2>3. PICK d \in [SUBSET T -> Nat] : Sums(g, SUBSET T, d) /\ Total(g) = d[T]
    BY <2>1, <2>2, TotalIs
  <2>4. T \subseteq S
    BY <2>0
  <2>5. Agreeing(T, S, T, f, g, c, d)
    BY <1>1, <2>1, <2>2, <2>3, <2>4 DEF Agreeing
  <2>6. c[T] = d[T]
    BY ONLY <2>5, Agree
  <2> QED BY <2>0, <2>3, <2>6
<1> QED BY <1>1, <1>2, <1>3, <1>4

(* An element's value can be taken out first, whichever it is. *)
LEMMA TotalSplit ==
  ASSUME NEW S, IsFiniteSet(S), NEW f \in [S -> Nat], NEW y \in S
  PROVE  Total(f) = f[y] + Total(Less(f, y))
<1> DEFINE P(n) == \A R, g, z : /\ IsFiniteSet(R) /\ Cardinality(R) = n
                               /\ g \in [R -> Nat] /\ z \in R
                               => Total(g) = g[z] + Total(Less(g, z))
           I == {n \in Nat : P(n)}
<1>1. P(0)
  BY FS_EmptySet
<1>2. ASSUME NEW n \in Nat, P(n) PROVE P(n + 1)
  <2> SUFFICES ASSUME NEW R, NEW g, NEW z, IsFiniteSet(R), Cardinality(R) = n + 1,
                      g \in [R -> Nat], z \in R
               PROVE  Total(g) = g[z] + Total(Less(g, z))
    OBVIOUS
  <2> DEFINE x == One(R)
  <2>1. x \in R
    BY DEF One
  <2>2. Total(g) = g[x] + Total(Less(g, x))
    BY TotalUnfold
  <2> HIDE DEF x
  <2>3. CASE x = z
    BY <2>2, <2>3
  <2>4. CASE x # z
    <3>1. \A u \in R : /\ IsFiniteSet(R \ {u}) /\ Cardinality(R \ {u}) = n
                        /\ Less(g, u) \in [R \ {u} -> Nat]
      <4>1. ASSUME NEW u \in R
            PROVE  IsFiniteSet(R \ {u}) /\ Cardinality(R \ {u}) = n
        <5>1. /\ IsFiniteSet(R \ {u})
              /\ Cardinality(R \ {u}) = IF u \in R THEN Cardinality(R) - 1 ELSE Cardinality(R)
          BY FS_RemoveElement
        <5>2. Cardinality(R) - 1 = n
          OBVIOUS
        <5> QED BY <5>1, <5>2
      <4>2. \A u \in R : Less(g, u) \in [R \ {u} -> Nat]
        BY DEF Less
      <4> QED BY <4>1, <4>2
    <3>2. /\ z \in R \ {x} /\ Less(g, x)[z] = g[z]
          /\ x \in R \ {z} /\ Less(g, z)[x] = g[x]
      BY <2>1, <2>4 DEF Less
    <3> DEFINE IH == \A Q, h, u : /\ IsFiniteSet(Q) /\ Cardinality(Q) = n
                                  /\ h \in [Q -> Nat] /\ u \in Q
                                  => Total(h) = h[u] + Total(Less(h, u))
    <3>0. IH
      BY <1>2
    <3> HIDE DEF P
    <3> HIDE DEF IH
    <3>a. ASSUME NEW u \in R, NEW v \in R \ {u}
          PROVE  Total(Less(g, u)) = Less(g, u)[v] + Total(Less(Less(g, u), v))
      <4>1. PICK Q, h : Q = R \ {u} /\ h = Less(g, u)
        OBVIOUS
      <4>2. IsFiniteSet(Q) /\ Cardinality(Q) = n /\ h \in [Q -> Nat] /\ v \in Q
        BY <3>1, <4>1
      <4>3. Total(h) = h[v] + Total(Less(h, v))
        BY ONLY <3>0, <4>2 DEF IH
      <4> QED BY <4>1, <4>3
    <3>3. Total(Less(g, x)) = g[z] + Total(Less(Less(g, x), z))
      BY <2>1, <3>2, <3>a
    <3>4. Total(Less(g, z)) = g[x] + Total(Less(Less(g, z), x))
      BY <3>2, <3>a
    <3>5. Less(Less(g, x), z) = Less(Less(g, z), x)
      <4>1. DOMAIN Less(g, x) = R \ {x} /\ DOMAIN Less(g, z) = R \ {z}
        BY DEF Less
      <4>2. (R \ {x}) \ {z} = (R \ {z}) \ {x}
        OBVIOUS
      <4>3. \A u \in (R \ {x}) \ {z} : Less(g, x)[u] = g[u] /\ Less(g, z)[u] = g[u]
        BY DEF Less
      <4>4. /\ Less(Less(g, x), z) = [u \in (R \ {x}) \ {z} |-> Less(g, x)[u]]
            /\ Less(Less(g, z), x) = [u \in (R \ {x}) \ {z} |-> Less(g, z)[u]]
        BY <4>1, <4>2 DEF Less
      <4> QED BY <4>3, <4>4
    <3>6. /\ Total(Less(Less(g, x), z)) \in Nat /\ g[x] \in Nat /\ g[z] \in Nat
      <4>1. IsFiniteSet((R \ {x}) \ {z})
        BY <2>1, <3>1, FS_RemoveElement
      <4>2. Less(Less(g, x), z) \in [(R \ {x}) \ {z} -> Nat]
        BY DEF Less
      <4> QED BY <2>1, <4>1, <4>2, TotalUnfold
    <3> QED BY <2>2, <3>3, <3>4, <3>5, <3>6
  <2> QED BY <2>3, <2>4
<1> HIDE DEF P
<1>3. 0 \in I /\ \A n \in Nat : n \in I => n + 1 \in I
  BY <1>1, <1>2
<1> HIDE DEF I
<1>4. Cardinality(S) \in Nat
  BY FS_CardinalityType
<1>5. Cardinality(S) \in I
  BY <1>3, <1>4, Induction
<1> USE DEF I, P
<1> QED BY <1>5

-----------------------------------------------------------------------------
(***************************************************************************)
(* Arithmetic modulo the values of an int.  In each lemma M stands for     *)
(* Values.                                                                 *)
(***************************************************************************)

LEMMA ModIs ==
  ASSUME NEW n \in Int, NEW M \in Nat \ {0}
  PROVE  /\ n % M \in 0..M - 1
         /\ \E q \in Int : n = q * M + (n % M)
<1>1. n % M \in 0..M - 1
  OBVIOUS
<1>2. n = (n \div M) * M + (n % M)
  OBVIOUS
<1>3. PICK q \in Int : q = n \div M
  OBVIOUS
<1> QED BY <1>1, <1>2, <1>3

LEMMA ModSmall ==
  ASSUME NEW M \in Nat \ {0}, NEW n \in 0..M - 1
  PROVE  n % M = n
  OBVIOUS

LEMMA ModBelow ==
  ASSUME NEW V \in Nat \ {0}, NEW n \in Int, n < 0, n + V >= 0
  PROVE  n % V = n + V
<1>1. PICK q \in Int : n = q * V + (n % V)
  BY ModIs
<1>2. PICK r \in 0..V - 1 : r = n % V
  BY ModIs
<1>3. n = q * V + r
  BY <1>1, <1>2
<1>4. q = -1
  <2>1. CASE q >= 0
    <3>1. q * V >= 0
      BY <2>1
    <3> QED BY <1>3, <3>1
  <2>2. CASE q <= -2
    <3>1. q * V = -2 * V + (q + 2) * V /\ (q + 2) * V <= 0
      BY <2>2
    <3>2. q * V \in Int /\ n < - V
      BY <1>3, <3>1
    <3> QED BY <3>2
  <2> QED BY <2>1, <2>2
<1>5. q * V = - V
  BY <1>4
<1> QED BY <1>2, <1>3, <1>5

(* Equal up to a multiple of M. *)
Same(a, b, M) == \E q \in Int : a = b + q * M

LEMMA SameMod ==
  ASSUME NEW n \in Int, NEW M \in Nat \ {0}
  PROVE  Same(n % M, n, M)
<1>1. PICK q \in Int : n = q * M + (n % M)
  BY ModIs
<1>2. PICK r \in Int : r = n % M
  BY ModIs
<1>3. r = n + (-q) * M
  BY <1>1, <1>2
<1>4. PICK p \in Int : p = -q
  OBVIOUS
<1> QED BY <1>2, <1>3, <1>4 DEF Same

LEMMA SameSum ==
  ASSUME NEW M \in Nat \ {0}, NEW a \in Int, NEW b \in Int, NEW c \in Int, NEW d \in Int,
         Same(a, b, M), Same(c, d, M)
  PROVE  /\ Same(a + c, b + d, M) /\ Same(a - c, b - d, M)
         /\ Same(b, a, M)
<1>1. PICK p \in Int : a = b + p * M
  BY DEF Same
<1>2. PICK q \in Int : c = d + q * M
  BY DEF Same
<1>3. a + c = (b + d) + (p + q) * M
  BY <1>1, <1>2
<1>4. a - c = (b - d) + (p - q) * M
  BY <1>1, <1>2
<1>5. b = a + (-p) * M
  BY <1>1
<1>6. PICK u \in Int, v \in Int, w \in Int : u = p + q /\ v = p - q /\ w = -p
  OBVIOUS
<1>7. a + c = (b + d) + u * M /\ a - c = (b - d) + v * M /\ b = a + w * M
  BY <1>3, <1>4, <1>5, <1>6
<1> QED BY <1>7 DEF Same

LEMMA SameTrans ==
  ASSUME NEW M \in Nat \ {0}, NEW a \in Int, NEW b \in Int, NEW c \in Int,
         Same(a, b, M), Same(b, c, M)
  PROVE  Same(a, c, M)
<1>1. PICK p \in Int : a = b + p * M
  BY DEF Same
<1>2. PICK q \in Int : b = c + q * M
  BY DEF Same
<1>3. a = c + (p + q) * M
  BY <1>1, <1>2
<1>4. PICK r \in Int : r = p + q
  OBVIOUS
<1> QED BY <1>3, <1>4 DEF Same

(* What a header can hold of the size of a block is too little by a        *)
(* multiple of M, or right.                                                *)
LEMMA NeverMore ==
  ASSUME NEW M \in Nat \ {0}, NEW size \in Nat, NEW all \in Nat,
         Same(all, size, M), all < size + M
  PROVE  \E lost \in 0..size : all = size - lost * M
<1>1. PICK q \in Int : all = size + q * M
  BY DEF Same
<1>2. q * M < M
  BY <1>1
<1>3. q < 1
  <2>1. CASE q >= 1
    <3>1. q * M = (q - 1) * M + M /\ (q - 1) * M >= 0
      BY <2>1
    <3> QED BY <1>2, <3>1
  <2> QED BY <2>1
<1> DEFINE lost == -q
<1>4. lost \in Nat /\ all = size - lost * M
  BY <1>1, <1>3
<1>5. lost * M <= size /\ lost * M >= lost
  <2>1. lost * M = lost * (M - 1) + lost /\ lost * (M - 1) >= 0
    BY <1>4
  <2> QED BY <1>4, <2>1
<1>6. lost \in 0..size
  BY <1>4, <1>5
<1> QED BY <1>4, <1>6

LEMMA SameShift ==
  ASSUME NEW M \in Nat \ {0}, NEW a \in Int, NEW b \in Int, Same(a, b, M),
         NEW c \in Int, NEW d \in Int, c - a = d - b
  PROVE  Same(c, d, M)
<1>1. PICK q \in Int : a = b + q * M
  BY DEF Same
<1>2. c = d + q * M
  BY <1>1
<1> QED BY <1>2 DEF Same

LEMMA SameSelf ==
  ASSUME NEW M \in Nat \ {0}, NEW a \in Int
  PROVE  Same(a, a, M)
<1>1. 0 \in Int /\ a = a + 0 * M
  OBVIOUS
<1> QED BY <1>1 DEF Same

LEMMA ValuesAre ==
  /\ IntMax \in Nat \ {0} /\ Values \in Nat \ {0} /\ Values = 2 * IntMax + 2
  /\ UIntMax \in Nat /\ UIntMax = Values - 1
  /\ MaxPrealloc \in Nat /\ 0 < MaxPrealloc /\ MaxPrealloc <= IntMax
  /\ Values * Values \in Nat \ {0} /\ Values * Values >= 4 * Values
<1>1. IntMax \in Nat \ {0} /\ MaxPrealloc \in 1..IntMax
  BY WidthAssumption
<1>2. Values \in Nat \ {0} /\ Values = 2 * IntMax + 2 /\ Values >= 4
  BY <1>1 DEF Values
<1>3. Values * Values \in Nat \ {0} /\ Values * Values >= 4 * Values
  <2>1. PICK V \in Nat : V = Values
    BY <1>2
  <2>2. V * V = 4 * V + (V - 4) * V /\ (V - 4) * V >= 0 /\ V >= 4
    BY <1>2, <2>1
  <2> QED BY <2>1, <2>2
<1> QED BY <1>1, <1>2, <1>3 DEF UIntMax

LEMMA UIntIs ==
  ASSUME NEW n \in Int
  PROVE  /\ UInt(n) \in 0..UIntMax /\ Same(UInt(n), n, Values)
         /\ n \in 0..UIntMax => UInt(n) = n
         /\ n < 0 /\ n + Values >= 0 => UInt(n) = n + Values
<1>1. Values \in Nat \ {0} /\ UIntMax = Values - 1
  BY ValuesAre
<1>2. n % Values \in 0..Values - 1 /\ Same(n % Values, n, Values)
  BY <1>1, ModIs, SameMod
<1>3. n \in 0..UIntMax => n % Values = n
  BY <1>1, ModSmall
<1>4. n < 0 /\ n + Values >= 0 => n % Values = n + Values
  BY <1>1, ModBelow
<1> QED BY <1>1, <1>2, <1>3, <1>4 DEF UInt

LEMMA SizeTIs ==
  ASSUME NEW n \in Int
  PROVE  /\ SizeT(n) \in 0..Values * Values - 1
         /\ n \in 0..Values * Values - 1 => SizeT(n) = n
         /\ n < 0 /\ n + Values * Values >= 0 => SizeT(n) = n + Values * Values
<1>1. PICK V \in Nat \ {0} : V = Values * Values
  BY ValuesAre
<1>2. n % V \in 0..V - 1 /\ (n \in 0..V - 1 => n % V = n)
  BY ModIs, ModSmall
<1>3. n < 0 /\ n + V >= 0 => n % V = n + V
  BY ModBelow
<1> QED BY <1>1, <1>2, <1>3 DEF SizeT

-----------------------------------------------------------------------------
(* What every function keeps of a string. *)
Holds(s) == Same(Len(s.text) + s.free + 1, s.size, Values)

Good(s) ==
  /\ s \in String /\ Len(s.text) <= UIntMax
  /\ ~s.bad /\ Holds(s) /\ Len(s.text) + 1 <= s.size

LEMMA TextIs ==
  ASSUME NEW s \in String
  PROVE  /\ s.text \in Seq(Bytes) /\ Len(s.text) \in Nat
         /\ s.free \in Nat /\ s.free <= UIntMax /\ s.size \in Nat
         /\ s.ends \in BOOLEAN /\ s.bad \in BOOLEAN
<1>1. s.text \in Seq(Bytes) /\ s.free \in 0..UIntMax /\ s.size \in Nat
      /\ s.ends \in BOOLEAN /\ s.bad \in BOOLEAN
  BY DEF String
<1>2. UIntMax \in Nat
  BY ValuesAre
<1> QED BY <1>1, <1>2

LEMMA PrefixIs ==
  ASSUME NEW S, NEW t \in Seq(S), NEW n \in 0..Len(t)
  PROVE  /\ SubSeq(t, 1, n) \in Seq(S) /\ Len(SubSeq(t, 1, n)) = n
         /\ \A i \in 1..n : SubSeq(t, 1, n)[i] = t[i]
<1>1. Len(t) \in Nat /\ \A i \in 1..Len(t) : t[i] \in S
  BY LenProperties
<1>2. n \in Int /\ 1 \in Int /\ \A i \in 1..n : t[i] \in S
  BY <1>1
<1> DEFINE p == SubSeq(t, 1, n)
<1>3. /\ p \in Seq(S) /\ Len(p) = IF 1 <= n THEN n - 1 + 1 ELSE 0
      /\ \A i \in 1..n - 1 + 1 : p[i] = t[1 + i - 1]
  BY <1>2, SubSeqProperties
<1> HIDE DEF p
<1>4. n \in Nat /\ n - 1 + 1 = n /\ \A i \in 1..n : 1 + i - 1 = i
  BY <1>1
<1>5. p \in Seq(S) /\ Len(p) = n /\ \A i \in 1..n : p[i] = t[i]
  BY <1>3, <1>4
<1> QED BY <1>5 DEF p

LEMMA PutIs ==
  ASSUME NEW s \in String, NEW t \in Seq(Bytes), NEW free \in Int
  PROVE  LET r == Put(s, t, Len(t), free) IN
         /\ r \in String /\ r.size = s.size /\ r.free = UInt(free)
         /\ r.text = SubSeq(t, 1, UInt(Len(t))) /\ Len(r.text) = UInt(Len(t))
         /\ r.bad = (s.bad \/ Len(t) + 1 > s.size)
         /\ UInt(Len(t)) \in 0..UIntMax /\ UInt(Len(t)) <= Len(t)
<1>1. PICK n \in Nat : n = Len(t)
  OBVIOUS
<1>2. UInt(n) \in 0..UIntMax /\ UInt(n) <= n
  <2>1. UIntMax \in Nat
    BY ValuesAre
  <2>2. UInt(n) \in 0..UIntMax /\ (n \in 0..UIntMax => UInt(n) = n)
    BY UIntIs
  <2> QED BY <2>1, <2>2
<1>3. PICK k \in 0..n : k = UInt(n)
  BY <1>2
<1>4. SubSeq(t, 1, k) \in Seq(Bytes) /\ Len(SubSeq(t, 1, k)) = k
  BY <1>1, PrefixIs
<1>5. UInt(free) \in 0..UIntMax
  BY UIntIs
<1> DEFINE p == SubSeq(t, 1, k)
           e == k = n \/ t[k + 1] = NUL
           b == s.bad \/ n + 1 > s.size
           r == [s EXCEPT !.text = p, !.free = UInt(free), !.ends = e, !.bad = b]
<1>6. Put(s, t, Len(t), free) = r
  BY <1>1, <1>3 DEF Put
<1>7. e \in BOOLEAN /\ b \in BOOLEAN
  OBVIOUS
<1> HIDE DEF p, e, b
<1>8. /\ r \in String /\ r.text = p /\ r.free = UInt(free) /\ r.size = s.size /\ r.bad = b
  BY <1>4, <1>5, <1>7 DEF String, p
<1> HIDE DEF r
<1>9. p = SubSeq(t, 1, UInt(Len(t))) /\ Len(p) = UInt(Len(t)) /\ b = (s.bad \/ Len(t) + 1 > s.size)
  BY <1>1, <1>3, <1>4 DEF p, b
<1>10. UInt(Len(t)) \in 0..UIntMax /\ UInt(Len(t)) <= Len(t)
  BY <1>1, <1>2
<1> QED BY <1>6, <1>8, <1>9, <1>10

(* A block that has room for t is used as its size says. *)
LEMMA PutGood ==
  ASSUME NEW s \in String, ~s.bad, NEW t \in Seq(Bytes), NEW free \in Int,
         Len(t) + 1 <= s.size, Same(Len(t) + free + 1, s.size, Values)
  PROVE  Good(Put(s, t, Len(t), free)) /\ Put(s, t, Len(t), free).size = s.size
<1>1. PICK r : r = Put(s, t, Len(t), free)
  OBVIOUS
<1>2. PICK n \in Nat : n = Len(t)
  OBVIOUS
<1>3. PICK z \in Nat : z = s.size
  BY TextIs
<1>4. PICK k \in Nat, f \in Nat : k = UInt(n) /\ f = UInt(free) /\ k <= UIntMax /\ k <= n
  <2>1. UInt(n) \in 0..UIntMax /\ UInt(free) \in 0..UIntMax /\ UInt(n) <= n /\ UIntMax \in Nat
    BY <1>2, UIntIs, ValuesAre, PutIs
  <2> QED BY <2>1
<1>5. /\ r \in String /\ r.size = z /\ r.free = f /\ Len(r.text) = k
      /\ r.bad = (s.bad \/ Len(t) + 1 > s.size)
  BY <1>1, <1>2, <1>3, <1>4, PutIs
<1>6. ~r.bad
  <2>1. ~(Len(t) + 1 > s.size)
    BY <1>2, <1>3
  <2> QED BY <1>5, <2>1
<1>7. Same(k, n, Values) /\ Same(f, free, Values) /\ Same(n + free + 1, z, Values)
  BY <1>2, <1>3, <1>4, UIntIs
<1>8. Same(k + f + 1, z, Values)
  <2>1. Values \in Nat \ {0}
    BY ValuesAre
  <2>2. Same(k + f, n + free, Values)
    BY <1>7, <2>1, SameSum
  <2>3. Same(k + f + 1, n + free + 1, Values)
    <3>1. PICK a \in Int, b \in Int, c \in Int, d \in Int :
            a = k + f /\ b = n + free /\ c = k + f + 1 /\ d = n + free + 1
      OBVIOUS
    <3>2. Same(a, b, Values) /\ c - a = d - b
      BY <2>2, <3>1
    <3>3. Same(c, d, Values)
      BY ONLY <2>1, <3>1, <3>2, SameShift
    <3> QED BY <3>1, <3>3
  <2>4. k + f + 1 \in Int /\ n + free + 1 \in Int
    OBVIOUS
  <2> QED BY <1>7, <2>1, <2>3, <2>4, SameTrans
<1>9. k + 1 <= z
  BY <1>2, <1>3, <1>4
<1> QED BY <1>1, <1>3, <1>4, <1>5, <1>6, <1>8, <1>9 DEF Good, Holds

-----------------------------------------------------------------------------
(* The functions. *)

LEMMA NewGood ==
  ASSUME NEW t \in Seq(Bytes)
  PROVE  Good(Sdsnewlen(t))
<1> DEFINE s == [text |-> <<>>, free |-> 0, size |-> Len(t) + 1, ends |-> TRUE, bad |-> FALSE]
<1>1. PICK n \in Nat : n = Len(t)
  OBVIOUS
<1>2. 0 \in 0..UIntMax
  BY ValuesAre
<1>3. s \in String /\ ~s.bad /\ s.size = n + 1
  BY <1>1, <1>2 DEF String
<1>4. Sdsnewlen(t) = Put(s, t, Len(t), 0)
  BY DEF Sdsnewlen
<1> HIDE DEF s
<1>5. Same(Len(t) + 0 + 1, s.size, Values)
  BY <1>1, <1>3, ValuesAre, SameSelf
<1> QED BY <1>1, <1>3, <1>4, <1>5, PutGood

LEMMA MakeRoomIs ==
  ASSUME NEW s, Good(s), NEW addlen \in 0..Values * Values - 1
  PROVE  LET r == SdsMakeRoomFor(s, addlen) IN
         /\ r \in String /\ r.text = s.text /\ ~r.bad /\ Holds(r)
         /\ s.free >= addlen => r = s
         /\ s.free < addlen => SizeT(Len(s.text) + addlen) + 1 <= r.size
         /\ addlen <= IntMax => r.free >= addlen
<1>1. PICK r : r = SdsMakeRoomFor(s, addlen)
  OBVIOUS
<1>2. s \in String /\ ~s.bad /\ Holds(s)
  BY DEF Good
<1>3. PICK n \in Nat, f \in Nat : n = Len(s.text) /\ f = s.free /\ n <= UIntMax
  BY <1>2, TextIs DEF Good
<1>4. addlen \in Nat /\ addlen <= Values * Values - 1
  BY ValuesAre
<1>5. CASE f >= addlen
  <2>1. r = s
    BY <1>1, <1>3, <1>5 DEF SdsMakeRoomFor
  <2> QED BY <1>1, <1>2, <1>3, <1>4, <1>5, <2>1
<1>6. CASE f < addlen
  <2>1. PICK m \in Nat : m = SizeT(n + addlen)
    BY <1>4, ValuesAre, SizeTIs
  <2>2. PICK room \in Nat : /\ room = IF m < MaxPrealloc THEN 2 * m ELSE m + MaxPrealloc
                            /\ room >= m
    BY ValuesAre
  <2>3. PICK g \in Nat : /\ g = UInt(room - n) /\ g \in 0..UIntMax
                         /\ Same(g, room - n, Values)
                         /\ (room - n \in 0..UIntMax => g = room - n)
    BY ValuesAre, UIntIs
  <2>4. r = [s EXCEPT !.size = room + 1, !.free = g]
    BY <1>1, <1>3, <1>6, <2>1, <2>2, <2>3 DEF SdsMakeRoomFor
  <2>5. /\ r \in String /\ r.text = s.text /\ ~r.bad
        /\ r.size = room + 1 /\ r.free = g
    <3>1. PICK z \in Nat : z = room + 1
      OBVIOUS
    <3>2. s \in String /\ ~s.bad /\ g \in 0..UIntMax /\ r = [s EXCEPT !.size = z, !.free = g]
      BY <1>2, <2>3, <2>4, <3>1
    <3>3. /\ r \in String /\ r.text = s.text /\ ~r.bad
          /\ r.size = z /\ r.free = g
      BY ONLY <3>2 DEF String
    <3> QED BY <3>1, <3>3
  <2>6. Same(n + g + 1, room + 1, Values)
    <3>1. Values \in Nat \ {0}
      BY ValuesAre
    <3>2. PICK b \in Int, c \in Int, d \in Int : b = room - n /\ c = n + g + 1 /\ d = room + 1
      OBVIOUS
    <3>3. g \in Int /\ Same(g, b, Values) /\ c - g = d - b
      BY <2>3, <3>2
    <3>4. Same(c, d, Values)
      BY ONLY <3>1, <3>2, <3>3, SameShift
    <3> QED BY <3>2, <3>4
  <2>7. Holds(r)
    BY <1>3, <2>5, <2>6 DEF Holds
  <2>8. ASSUME addlen <= IntMax PROVE g >= addlen
    <3>1. m = n + addlen
      <4>1. n + addlen \in 0..Values * Values - 1
        BY <1>3, <1>4, <2>8, ValuesAre
      <4> QED BY <2>1, <4>1, SizeTIs
    <3>2. room - n \in 0..UIntMax /\ room - n >= addlen
      BY <1>4, <2>2, <2>8, <3>1, ValuesAre
    <3> QED BY <2>3, <3>2
  <2> QED BY <1>1, <1>3, <1>6, <2>1, <2>2, <2>5, <2>7, <2>8
<1> QED BY <1>3, <1>4, <1>5, <1>6

LEMMA RoomLeft ==
  ASSUME NEW s, Good(s)
  PROVE  /\ Len(s.text) + s.free + 1 <= s.size
         /\ \E lost \in 0..s.size :
              Len(s.text) + s.free + 1 = s.size - lost * Values
<1>1. PICK n \in Nat, f \in Nat, z \in Nat :
        n = Len(s.text) /\ f = s.free /\ z = s.size /\ f < Values /\ n + 1 <= z
  BY TextIs, ValuesAre DEF Good
<1>2. \E lost \in 0..z : n + f + 1 = z - lost * Values
  <2>1. /\ Values \in Nat \ {0} /\ n \in Nat /\ f \in Nat /\ z \in Nat
        /\ Same(n + f + 1, z, Values) /\ f < Values /\ n + 1 <= z
    BY <1>1, ValuesAre DEF Good, Holds
  <2>2. PICK all \in Nat : all = n + f + 1
    OBVIOUS
  <2>3. Same(all, z, Values)
    BY <2>1, <2>2
  <2>4. all < z + Values
    BY <2>1, <2>2
  <2>5. \E lost \in 0..z : all = z - lost * Values
    BY ONLY <2>1, <2>2, <2>3, <2>4, NeverMore
  <2> QED BY <2>2, <2>5
<1>3. PICK lost \in Nat : n + f + 1 = z - lost * Values
  BY <1>2
<1>4. lost * Values \in Nat
  BY ValuesAre
<1>5. n + f + 1 <= z
  BY <1>3, <1>4
<1> QED BY <1>1, <1>2, <1>5

(* Room for addlen more bytes, if they fit in an unsigned int. *)
LEMMA RoomMade ==
  ASSUME NEW s, Good(s), NEW addlen \in 0..UIntMax
  PROVE  LET r == SdsMakeRoomFor(s, addlen) IN
         /\ r \in String /\ r.text = s.text /\ ~r.bad /\ Holds(r)
         /\ Len(s.text) + addlen + 1 <= r.size
         /\ Good(r)
<1>1. addlen \in 0..Values * Values - 1 /\ addlen \in Nat
  BY ValuesAre
<1>2. PICK r : r = SdsMakeRoomFor(s, addlen)
  OBVIOUS
<1>3. /\ r \in String /\ r.text = s.text /\ ~r.bad /\ Holds(r)
      /\ s.free >= addlen => r = s
      /\ s.free < addlen => SizeT(Len(s.text) + addlen) + 1 <= r.size
  BY <1>1, <1>2, MakeRoomIs
<1>4. PICK n \in Nat, f \in Nat, z \in Nat :
        n = Len(s.text) /\ f = s.free /\ z = r.size /\ n <= UIntMax
  BY <1>3, TextIs DEF Good
<1>5. CASE f >= addlen
  <2>1. n + f + 1 <= s.size /\ r = s
    BY <1>3, <1>4, <1>5, RoomLeft
  <2> QED BY <1>1, <1>2, <1>3, <1>4, <1>5, <2>1 DEF Good
<1>6. CASE f < addlen
  <2>1. n + addlen \in 0..Values * Values - 1
    BY <1>1, <1>4, ValuesAre
  <2>2. SizeT(n + addlen) = n + addlen
    BY <2>1, SizeTIs
  <2>3. n + addlen + 1 <= z
    BY <1>3, <1>4, <1>6, <2>2
  <2>4. n + 1 <= z
    BY <1>1, <1>4, <2>3
  <2> QED BY <1>2, <1>3, <1>4, <2>3, <2>4 DEF Good
<1> QED BY <1>1, <1>4, <1>5, <1>6

LEMMA Join ==
  ASSUME NEW S, NEW a \in Seq(S), NEW b \in Seq(S)
  PROVE  /\ a \o b \in Seq(S) /\ Len(a \o b) = Len(a) + Len(b)
         /\ Len(a) \in Nat /\ Len(b) \in Nat
  BY ConcatProperties

LEMMA CatGood ==
  ASSUME NEW s, Good(s), NEW t \in Seq(Bytes), Len(t) <= UIntMax
  PROVE  Good(Sdscatlen(s, t))
<1>1. PICK r : r = SdsMakeRoomFor(s, Len(t))
  OBVIOUS
<1>2. PICK k \in Nat : k = Len(t) /\ k \in 0..UIntMax
  <2>1. UIntMax \in Nat /\ Len(t) \in Nat
    BY ValuesAre
  <2> QED BY <2>1
<1>3. /\ r \in String /\ r.text = s.text /\ ~r.bad /\ Holds(r)
      /\ Len(s.text) + k + 1 <= r.size
  BY <1>1, <1>2, RoomMade
<1>4. PICK n \in Nat, f \in Nat : n = Len(s.text) /\ f = r.free
  BY <1>3, TextIs
<1>5. PICK u : u = s.text \o t
  OBVIOUS
<1>6. u \in Seq(Bytes) /\ Len(u) = n + k
  BY <1>2, <1>3, <1>4, <1>5, TextIs, Join
<1>7. Sdscatlen(s, t) = Put(r, u, n + k, f - k)
  BY <1>1, <1>2, <1>4, <1>5 DEF Sdscatlen
<1>8. Same(Len(u) + (f - k) + 1, r.size, Values)
  <2>1. Len(u) + (f - k) + 1 = n + f + 1
    BY <1>6
  <2> QED BY <1>3, <1>4, <2>1 DEF Holds
<1>9. f - k \in Int /\ Len(u) + 1 <= r.size
  BY <1>3, <1>4, <1>6
<1> QED BY <1>3, <1>6, <1>7, <1>8, <1>9, PutGood

LEMMA ZerosAre ==
  ASSUME NEW n \in Nat
  PROVE  Zeros(n) \in Seq(Bytes) /\ Len(Zeros(n)) = n
<1>1. NUL \in Bytes
  BY DEF Bytes
<1> QED BY <1>1 DEF Zeros

LEMMA GrowGood ==
  ASSUME NEW s, Good(s), NEW len \in 0..IntMax
  PROVE  Good(Sdsgrowzero(s, len))
<1>1. PICK n \in Nat : n = Len(s.text) /\ n <= UIntMax
  BY TextIs DEF Good
<1>2. CASE len - n <= 0
  BY <1>1, <1>2 DEF Sdsgrowzero
<1>3. CASE ~(len - n <= 0)
  <2>1. PICK more \in Nat : more = len - n /\ more \in 0..UIntMax
    <3>1. IntMax \in Nat /\ len \in Nat /\ len <= IntMax /\ IntMax <= UIntMax /\ UIntMax \in Nat
      BY ValuesAre
    <3>2. len - n \in Nat /\ len - n <= UIntMax
      BY <1>1, <1>3, <3>1
    <3>3. PICK more \in Nat : more = len - n
      BY <3>2
    <3> QED BY <3>1, <3>2, <3>3
  <2>2. PICK r : r = SdsMakeRoomFor(s, more)
    OBVIOUS
  <2>3. /\ r \in String /\ r.text = s.text /\ ~r.bad /\ Holds(r)
        /\ n + more + 1 <= r.size
    BY <1>1, <2>1, <2>2, RoomMade
  <2>4. PICK f \in Nat : f = r.free
    BY <2>3, TextIs
  <2>5. PICK u : u = s.text \o Zeros(more)
    OBVIOUS
  <2>6. u \in Seq(Bytes) /\ Len(u) = n + more
    <3>1. PICK a \in Seq(Bytes), b \in Seq(Bytes) : a = s.text /\ b = Zeros(more) /\ Len(b) = more
      BY <2>1, <2>3, TextIs, ZerosAre
    <3> QED BY <1>1, <2>5, <3>1, Join
  <2>7. n + more = len
    BY <1>1, <2>1
  <2>8. Sdsgrowzero(s, len) = Put(r, u, len, n + f - len)
    BY <1>1, <1>3, <2>1, <2>2, <2>3, <2>4, <2>5 DEF Sdsgrowzero
  <2>9. Same(Len(u) + (n + f - len) + 1, r.size, Values)
    <3>1. Len(u) + (n + f - len) + 1 = n + f + 1
      BY <2>6, <2>7
    <3> QED BY <1>1, <2>3, <2>4, <3>1 DEF Holds
  <2>10. n + f - len \in Int /\ Len(u) + 1 <= r.size
    BY <1>1, <2>3, <2>6
  <2> QED BY <2>3, <2>6, <2>7, <2>8, <2>9, <2>10, PutGood
<1> QED BY <1>2, <1>3

LEMMA CpyGood ==
  ASSUME NEW s, Good(s), NEW t \in Seq(Bytes), Len(t) <= UIntMax
  PROVE  Good(Sdscpylen(s, t))
<1>1. PICK n \in Nat, f \in Nat, k \in Nat :
        n = Len(s.text) /\ f = s.free /\ k = Len(t) /\ n <= UIntMax /\ k <= UIntMax
  BY TextIs DEF Good
<1>2. PICK c \in Nat : c = UInt(f + n) /\ c \in 0..UIntMax /\ c <= f + n
  <2>1. UInt(f + n) \in 0..UIntMax /\ (f + n \in 0..UIntMax => UInt(f + n) = f + n)
    BY UIntIs
  <2> QED BY <2>1, ValuesAre
<1>3. PICK r : r = IF c < k THEN SdsMakeRoomFor(s, SizeT(k - n)) ELSE s
  OBVIOUS
<1>4. r \in String /\ r.text = s.text /\ ~r.bad /\ Holds(r) /\ k + 1 <= r.size
  <2>1. CASE c < k
    <3>1. PICK a \in Nat : /\ a = SizeT(k - n) /\ a \in 0..Values * Values - 1
                           /\ (k >= n => a = k - n)
                           /\ (k < n => a = k - n + Values * Values)
      <4>1. k - n \in Int
        OBVIOUS
      <4>2. SizeT(k - n) \in 0..Values * Values - 1
        BY <4>1, SizeTIs
      <4>3. k >= n => k - n \in 0..Values * Values - 1
        BY <1>1, ValuesAre
      <4>4. k < n => k - n < 0 /\ k - n + Values * Values >= 0
        BY <1>1, ValuesAre
      <4> QED BY <4>1, <4>2, <4>3, <4>4, SizeTIs, ValuesAre
    <3>2. r = SdsMakeRoomFor(s, a)
      BY <1>3, <2>1, <3>1
    <3>3. /\ r \in String /\ r.text = s.text /\ ~r.bad /\ Holds(r)
          /\ f >= a => r = s
          /\ f < a => SizeT(n + a) + 1 <= r.size
      BY <1>1, <3>1, <3>2, MakeRoomIs
    <3>4. CASE f >= a
      <4>1. k >= n
        <5>1. f <= UIntMax
          BY <1>1, TextIs DEF Good
        <5>2. PICK V \in Nat, U \in Nat : V = Values * Values /\ U = UIntMax /\ V - U > U
          BY ValuesAre
        <5>3. k < n => a = k - n + V
          BY <3>1, <5>2
        <5>4. f <= U /\ n <= U
          BY <1>1, <5>1, <5>2
        <5> QED BY <3>4, <5>2, <5>3, <5>4
      <4>2. n + f + 1 <= s.size /\ r = s
        BY <1>1, <3>3, <3>4, RoomLeft
      <4>3. s.size \in Nat
        BY TextIs DEF Good
      <4> QED BY <3>1, <3>3, <3>4, <4>1, <4>2, <4>3
    <3>5. CASE f < a
      <4>1. SizeT(n + a) = k
        <5>1. CASE k >= n
          <6>1. n + a = k /\ k \in 0..Values * Values - 1
            BY <1>1, <3>1, <5>1, ValuesAre
          <6> QED BY <6>1, SizeTIs
        <5>2. CASE k < n
          <6>1. PICK V \in Nat : V = Values * Values
            BY ValuesAre
          <6>2. n + a = k + V
            <7>1. a = k - n + V
              BY <3>1, <5>2, <6>1
            <7> QED BY ONLY <7>1, n \in Nat, k \in Nat, V \in Nat
          <6>3. SizeT(k + V) = k
            <7>1. k \in 0..V - 1 /\ V \in Nat \ {0}
              BY <1>1, <6>1, ValuesAre
            <7>2. (k + V) % V = k
              BY <7>1
            <7> QED BY <6>1, <7>2 DEF SizeT
          <6> QED BY <6>2, <6>3
        <5> QED BY <5>1, <5>2
      <4> QED BY <3>3, <3>5, <4>1
    <3> QED BY <1>1, <3>1, <3>4, <3>5
  <2>2. CASE ~(c < k)
    <3>1. r = s /\ Good(s) /\ n + f + 1 <= s.size /\ s.size \in Nat
      BY <1>1, <1>3, <2>2, RoomLeft, TextIs DEF Good
    <3>2. k + 1 <= s.size
      BY <1>2, <2>2, <3>1
    <3> QED BY <3>1, <3>2 DEF Good
  <2> QED BY <2>1, <2>2
<1>5. PICK g \in Nat : g = r.free
  BY <1>4, TextIs
<1>6. PICK h \in Nat : h = UInt(g + n) /\ Same(h, g + n, Values)
  BY UIntIs, ValuesAre
<1>7. Sdscpylen(s, t) = Put(r, t, k, h - k)
  BY <1>1, <1>2, <1>3, <1>4, <1>5, <1>6 DEF Sdscpylen
<1>8. Same(k + (h - k) + 1, r.size, Values)
  <2>1. Same(h + 1, g + n + 1, Values)
    <3>1. PICK b \in Int, e \in Int, d \in Int : b = g + n /\ e = h + 1 /\ d = g + n + 1
      OBVIOUS
    <3>2. h \in Int /\ Same(h, b, Values) /\ e - h = d - b /\ Values \in Nat \ {0}
      BY <1>6, <3>1, ValuesAre
    <3>3. Same(e, d, Values)
      BY ONLY <3>1, <3>2, SameShift
    <3> QED BY <3>1, <3>3
  <2>2. Same(g + n + 1, r.size, Values)
    <3>1. g + n + 1 = n + g + 1
      OBVIOUS
    <3> QED BY <1>1, <1>4, <1>5, <3>1 DEF Holds
  <2>3. Same(h + 1, r.size, Values)
    <3>1. r.size \in Int /\ h + 1 \in Int /\ g + n + 1 \in Int
      BY <1>4, TextIs
    <3> QED BY <2>1, <2>2, <3>1, SameTrans, ValuesAre
  <2>4. k + (h - k) + 1 = h + 1
    OBVIOUS
  <2> QED BY <2>3, <2>4
<1>9. h - k \in Int
  OBVIOUS
<1> QED BY <1>1, <1>4, <1>7, <1>8, <1>9, PutGood

LEMMA ShortenGood ==
  ASSUME NEW s, Good(s), NEW t \in Seq(Bytes), Len(t) <= Len(s.text)
  PROVE  Good(Shorten(s, t)) /\ Shorten(s, t).size = s.size
<1>1. PICK n \in Nat, f \in Nat, k \in Nat, z \in Nat :
        n = Len(s.text) /\ f = s.free /\ k = Len(t) /\ z = s.size /\ n + 1 <= z
        /\ k <= n
  BY TextIs DEF Good
<1>2. s \in String /\ ~s.bad /\ Same(n + f + 1, z, Values)
  BY <1>1 DEF Good, Holds
<1>3. PICK g \in Int : g = f + n - k
  OBVIOUS
<1>4. Shorten(s, t) = Put(s, t, k, g)
  BY <1>1, <1>3 DEF Shorten
<1>5. k + g + 1 = n + f + 1
  BY <1>3
<1>6. k + 1 <= z
  BY <1>1
<1>7. Same(k + g + 1, z, Values)
  BY <1>2, <1>5
<1>8. Good(Put(s, t, Len(t), g)) /\ Put(s, t, Len(t), g).size = s.size
  BY <1>1, <1>2, <1>6, <1>7, PutGood
<1> QED BY <1>1, <1>4, <1>8

LEMMA SubSeqIs ==
  ASSUME NEW S, NEW t \in Seq(S), NEW a \in 1..Len(t) + 1, NEW b \in a - 1..Len(t)
  PROVE  SubSeq(t, a, b) \in Seq(S) /\ Len(SubSeq(t, a, b)) = b - a + 1
<1>1. Len(t) \in Nat /\ \A i \in 1..Len(t) : t[i] \in S
  BY LenProperties
<1>2. a \in Int /\ b \in Int /\ \A i \in a..b : t[i] \in S
  BY <1>1
<1> DEFINE p == SubSeq(t, a, b)
<1>3. p \in Seq(S) /\ Len(p) = IF a <= b THEN b - a + 1 ELSE 0
  BY <1>2, SubSeqProperties
<1> HIDE DEF p
<1>4. a > b => b - a + 1 = 0
  BY <1>1
<1>5. p \in Seq(S) /\ Len(p) = b - a + 1
  BY <1>2, <1>3, <1>4
<1> QED BY <1>5 DEF p

LEMMA MinIs ==
  ASSUME NEW T \in SUBSET Nat, T # {}
  PROVE  Min(T) \in T /\ \A y \in T : Min(T) <= y
<1>1. \E x \in T : \A y \in T : x =< y
  BY Smallest
<1> QED BY <1>1 DEF Min

LEMMA MaxIs ==
  ASSUME NEW n \in Nat, NEW T \in SUBSET (0..n), T # {}
  PROVE  Max(T) \in T /\ \A y \in T : Max(T) >= y
<1> DEFINE R == {m \in Nat : n - m \in T}
<1>1. PICK z \in T : TRUE
  OBVIOUS
<1>2. n - z \in R
  BY <1>1
<1>3. PICK m \in R : \A y \in R : m <= y
  BY <1>2, Smallest
<1>4. n - m \in T /\ m \in Nat
  BY <1>3
<1>5. ASSUME NEW y \in T PROVE n - m >= y
  <2>1. y \in 0..n /\ n - (n - y) = y /\ n - y \in Nat
    OBVIOUS
  <2>2. m <= n - y
    BY <1>3, <2>1
  <2> QED BY <1>4, <2>1, <2>2
<1>6. \E x \in T : \A y \in T : x >= y
  BY <1>4, <1>5
<1> QED BY <1>6 DEF Max

LEMMA ClearGood ==
  ASSUME NEW s, Good(s)
  PROVE  Good(Sdsclear(s))
<1>1. <<>> \in Seq(Bytes) /\ Len(<<>>) <= Len(s.text)
  BY TextIs DEF Good
<1> QED BY <1>1, ShortenGood DEF Sdsclear

LEMMA TrimGood ==
  ASSUME NEW s, Good(s), NEW cset
  PROVE  Good(Sdstrim(s, cset))
<1> DEFINE kept == {i \in DOMAIN s.text : s.text[i] \notin cset \cup {NUL}}
           t == IF kept = {} THEN <<>> ELSE SubSeq(s.text, Min(kept), Max(kept))
<1>1. PICK n \in Nat : n = Len(s.text) /\ s.text \in Seq(Bytes) /\ DOMAIN s.text = 1..n
  BY TextIs DEF Good
<1>2. t \in Seq(Bytes) /\ Len(t) <= n
  <2>1. CASE kept = {}
    BY <2>1
  <2>2. CASE kept # {}
    <3>1. kept \subseteq 1..n /\ kept \in SUBSET Nat /\ kept \in SUBSET (0..n)
      BY <1>1
    <3> HIDE DEF kept
    <3>2. /\ Min(kept) \in kept /\ Max(kept) \in kept
          /\ \A y \in kept : Min(kept) <= y
      BY <2>2, <3>1, MinIs, MaxIs
    <3>3. PICK a \in 1..n, b \in 1..n : a = Min(kept) /\ b = Max(kept) /\ a <= b
      BY <3>1, <3>2
    <3>4. SubSeq(s.text, a, b) \in Seq(Bytes) /\ Len(SubSeq(s.text, a, b)) = b - a + 1
      <4>1. a \in 1..Len(s.text) + 1 /\ b \in a - 1..Len(s.text)
        BY <1>1, <3>3
      <4> QED BY <1>1, <4>1, SubSeqIs
    <3> QED BY <2>2, <3>3, <3>4
  <2> QED BY <2>1, <2>2
<1>3. Sdstrim(s, cset) = Shorten(s, t)
  BY DEF Sdstrim
<1> HIDE DEF t
<1> QED BY <1>1, <1>2, <1>3, ShortenGood

(* sdsupdatelen cuts at the first NUL. *)
LEMMA UpdateGood ==
  ASSUME NEW s, Good(s)
  PROVE  Good(Sdsupdatelen(s))
<1>1. PICK n \in Nat : n = Len(s.text) /\ s.text \in Seq(Bytes)
  BY TextIs DEF Good
<1> DEFINE T == {i \in 1..Len(s.text) : s.text[i] = NUL}
           m == IF T # {} THEN Min(T) ELSE 0
<1>2. Sdsupdatelen(s) = IF m = 0 THEN s ELSE Shorten(s, SubSeq(s.text, 1, m - 1))
  BY DEF Sdsupdatelen, SelectInSeq
<1>3. CASE m = 0
  BY <1>2, <1>3
<1>4. CASE m # 0
  <2>1. T \in SUBSET Nat /\ T \subseteq 1..n
    BY <1>1
  <2>2. m \in 1..n
    <3> HIDE DEF T
    <3>1. T # {} => Min(T) \in T
      BY <2>1, MinIs
    <3> QED BY <1>4, <2>1, <3>1
  <2> HIDE DEF m
  <2>3. m - 1 \in 0..Len(s.text) /\ m - 1 <= n
    BY <1>1, <2>2
  <2>4. SubSeq(s.text, 1, m - 1) \in Seq(Bytes) /\ Len(SubSeq(s.text, 1, m - 1)) <= n
    BY <1>1, <2>3, PrefixIs
  <2> QED BY <1>1, <1>2, <1>4, <2>4, ShortenGood
<1> QED BY <1>3, <1>4

LEMMA RemoveFreeGood ==
  ASSUME NEW s, Good(s)
  PROVE  Good(SdsRemoveFreeSpace(s))
<1>1. PICK n \in Nat, z \in Nat : n = Len(s.text) /\ z = n + 1 /\ n <= UIntMax
  BY TextIs DEF Good
<1>2. PICK r : r = [s EXCEPT !.size = z, !.free = 0]
  OBVIOUS
<1>3. s \in String /\ ~s.bad /\ 0 \in 0..UIntMax
  BY ValuesAre DEF Good
<1>4. r \in String /\ r.text = s.text /\ ~r.bad /\ r.size = z /\ r.free = 0
  BY ONLY <1>1, <1>2, <1>3 DEF String
<1>5. Same(n + 0 + 1, z, Values)
  BY <1>1, SameSelf, ValuesAre
<1>6. SdsRemoveFreeSpace(s) = r
  BY <1>1, <1>2 DEF SdsRemoveFreeSpace
<1> QED BY <1>1, <1>4, <1>5, <1>6 DEF Good, Holds

(* The end of the string is moved into the room, or back. *)
LEMMA IncrGood ==
  ASSUME NEW s, Good(s), NEW t \in Seq(Bytes), NEW incr \in Int, incr <= Len(t),
         incr <= s.free, Len(s.text) + incr >= 0
  PROVE  Good(SdsIncrLen(s, t, incr))
<1>1. PICK n \in Nat, f \in Nat, z \in Nat :
        /\ n = Len(s.text) /\ f = s.free /\ z = s.size /\ n + f + 1 <= z
        /\ incr <= f /\ n + incr >= 0
  BY TextIs, RoomLeft DEF Good
<1>2. s \in String /\ ~s.bad /\ Same(n + f + 1, z, Values)
  BY <1>1 DEF Good, Holds
<1>3. PICK len \in Nat, k \in Nat : len = n + incr /\ k = Len(t) /\ len <= n + k
  BY <1>1
<1>4. PICK u : u = s.text \o t
  OBVIOUS
<1>5. u \in Seq(Bytes) /\ Len(u) = n + k
  BY <1>1, <1>2, <1>3, <1>4, TextIs, Join
<1>6. PICK p : p = SubSeq(u, 1, len)
  OBVIOUS
<1>7. p \in Seq(Bytes) /\ Len(p) = len
  <2>1. len \in 0..Len(u)
    BY <1>3, <1>5
  <2> QED BY <1>5, <1>6, <2>1, PrefixIs
<1> PICK g \in Int : g = f - incr
  OBVIOUS
<1>8. PICK r : r = Put(s, p, len, g)
  OBVIOUS
<1>9. Good(r) /\ r.size = z
  <2>1. len + g + 1 = n + f + 1
    BY <1>3
  <2>0. len + 1 <= z
    <3>1. n + f + 1 <= z /\ incr <= f
      BY <1>1
    <3> QED BY <1>3, <3>1
  <2>2. Same(len + g + 1, z, Values)
    BY <1>2, <2>1
  <2> QED BY <1>1, <1>2, <1>7, <1>8, <2>0, <2>2, PutGood
<1>10. /\ incr >= 0 => ~(f < incr)
       /\ incr < 0 => ~(n < -incr)
  <2>1. /\ incr \in Int /\ f \in Nat /\ n \in Nat
        /\ incr <= f /\ n + incr >= 0
    BY <1>1
  <2> QED BY ONLY <2>1
<1> DEFINE over == IF incr >= 0 THEN f < incr ELSE n < -incr
           q == [r EXCEPT !.ends = TRUE, !.bad = r.bad \/ over]
<1>11. ~over
  BY <1>10
<1>12. SdsIncrLen(s, t, incr) = q
  BY <1>1, <1>3, <1>4, <1>6, <1>8 DEF SdsIncrLen
<1> HIDE DEF over
<1>13. r \in String /\ ~r.bad /\ (r.bad \/ over) = FALSE
  BY <1>9, <1>11, TextIs DEF Good
<1>14. q = [r EXCEPT !.ends = TRUE, !.bad = FALSE]
  BY <1>13
<1> HIDE DEF q
<1>15. /\ q \in String /\ q.text = r.text /\ q.free = r.free /\ q.size = r.size
       /\ ~q.bad
  BY <1>13, <1>14 DEF String
<1> QED BY <1>9, <1>12, <1>15 DEF Good, Holds

LEMMA ReadGood ==
  ASSUME NEW s, Good(s), NEW c \in 0..IntMax, NEW t \in Seq(Bytes), Len(t) <= c
  PROVE  Good(SdsIncrLen(SdsMakeRoomFor(s, c), t, Len(t)))
<1>1. PICK r : r = SdsMakeRoomFor(s, c)
  OBVIOUS
<1>2. c \in Nat /\ c <= IntMax /\ c \in 0..UIntMax /\ c \in 0..Values * Values - 1
  BY ValuesAre
<1>3. Good(r) /\ r.text = s.text
  BY <1>1, <1>2, RoomMade
<1>4. r.free >= c
  BY <1>1, <1>2, MakeRoomIs
<1>5. PICK n \in Nat, f \in Nat, k \in Nat :
        n = Len(r.text) /\ f = r.free /\ k = Len(t)
  BY <1>3, TextIs DEF Good
<1>6. k <= f /\ n + k >= 0 /\ k \in Int /\ k <= k
  BY <1>2, <1>4, <1>5
<1> QED BY <1>1, <1>3, <1>5, <1>6, IncrGood

LEMMA CutGood ==
  ASSUME NEW s, Good(s), NEW c \in 0..IntMax, c <= Len(s.text)
  PROVE  Good(SdsIncrLen(s, <<>>, -c))
<1>1. PICK n \in Nat, f \in Nat : n = Len(s.text) /\ f = s.free /\ c <= n
  BY TextIs DEF Good
<1>2. PICK m \in Nat, i \in Int : m = c /\ i = -c /\ i = -m
  BY ValuesAre
<1>3. i <= 0 /\ i <= f /\ n + i >= 0
  <2>1. m \in Nat /\ n \in Nat /\ f \in Nat /\ m <= n /\ i = -m
    BY <1>1, <1>2
  <2> QED BY ONLY <2>1
<1>4. <<>> \in Seq(Bytes) /\ Len(<<>>) = 0
  OBVIOUS
<1>5. Good(SdsIncrLen(s, <<>>, i))
  BY <1>1, <1>3, <1>4, IncrGood
<1> QED BY <1>2, <1>5

-----------------------------------------------------------------------------
(* sdsrange *)

LEMMA IntIs ==
  ASSUME NEW n \in Int, -(IntMax + 1) <= n, n <= UIntMax
  PROVE  /\ Int_(n) \in Int /\ -(IntMax + 1) <= Int_(n) /\ Int_(n) <= IntMax
         /\ Int_(n) = IF n <= IntMax THEN n ELSE n - Values
<1>1. PICK H \in Nat, V \in Nat, U \in Nat :
        H = IntMax /\ V = Values /\ U = UIntMax /\ V = 2 * H + 2 /\ U = V - 1
  BY ValuesAre
<1>2. UInt(n) = IF n < 0 THEN n + V ELSE n
  <2>1. CASE n < 0
    BY <1>1, <2>1, UIntIs
  <2>2. CASE n >= 0
    BY <1>1, <2>2, UIntIs
  <2> QED BY <2>1, <2>2
<1>3. Int_(n) = IF UInt(n) > H THEN UInt(n) - V ELSE UInt(n)
  BY <1>1 DEF Int_
<1>4. PICK u \in Int : u = UInt(n)
  BY <1>1, <1>2
<1> QED BY <1>1, <1>2, <1>3, <1>4

LEMMA MaxZero ==
  ASSUME NEW n \in Int
  PROVE  Max({n, 0}) = IF n >= 0 THEN n ELSE 0
<1> DEFINE m == IF n >= 0 THEN n ELSE 0
           T == {n, 0}
<1>1. m \in T /\ \A y \in T : m >= y
  OBVIOUS
<1>2. Max(T) \in T /\ \A y \in T : Max(T) >= y
  BY <1>1 DEF Max
<1>3. Max(T) \in Int /\ m \in Int /\ Max(T) >= m /\ m >= Max(T)
  BY <1>1, <1>2
<1> HIDE DEF m, T
<1>4. Max(T) = m
  BY <1>3
<1> QED BY <1>4 DEF m, T

(* Where an index leads in a text of length len. *)
At(k, len) == IF k >= 0 THEN k ELSE IF -k > len THEN 0 ELSE len + k

LEMMA FromEndIs ==
  ASSUME NEW i \in Indices, NEW len \in 0..UIntMax
  PROVE  /\ FromEnd(i, len) \in 0..IntMax
         /\ len <= IntMax => FromEnd(i, len) = At(i, len)
<1>1. PICK H \in Nat, U \in Nat : H = IntMax /\ U = UIntMax /\ U = 2 * H + 1
  BY ValuesAre
<1>2. i \in Int /\ -(H + 1) <= i /\ i <= H /\ len \in Nat /\ len <= U
  BY <1>1 DEF Indices
<1>3. CASE i >= 0
  BY <1>1, <1>2, <1>3 DEF FromEnd, At
<1>4. CASE i < 0
  <2>1. PICK m \in Int : m = len + i /\ -(H + 1) <= m /\ m <= U
    BY <1>2, <1>4
  <2>2. /\ Int_(m) \in Int /\ Int_(m) <= H
        /\ Int_(m) = IF m <= H THEN m ELSE m - Values
    BY <1>1, <2>1, IntIs
  <2>3. FromEnd(i, len) = Max({Int_(m), 0})
    BY <1>2, <1>4, <2>1 DEF FromEnd
  <2>4. PICK k \in Int : k = Int_(m) /\ k <= H /\ k = IF m <= H THEN m ELSE m - Values
    BY <2>2
  <2>5. FromEnd(i, len) = IF k >= 0 THEN k ELSE 0
    BY <2>3, <2>4, MaxZero
  <2>6. len <= H => m <= H
    BY <1>2, <1>4, <2>1
  <2>7. At(i, len) = IF m < 0 THEN 0 ELSE m
    BY <1>2, <1>4, <2>1 DEF At
  <2> QED BY <1>1, <1>2, <2>4, <2>5, <2>6, <2>7
<1> QED BY <1>2, <1>3, <1>4

LEMMA BetweenIs ==
  ASSUME NEW from \in 0..IntMax, NEW to \in 0..IntMax
  PROVE  /\ Between(from, to) \in Nat
         /\ Between(from, to) = 0 <=> from > to
         /\ from <= to /\ to - from < IntMax => Between(from, to) = to - from + 1
<1>1. PICK H \in Nat, V \in Nat, W \in Nat :
        /\ H = IntMax /\ V = Values /\ W = Values * Values
        /\ V = 2 * H + 2 /\ W >= 4 * V
  BY ValuesAre
<1>2. from \in Nat /\ to \in Nat /\ from <= H /\ to <= H
  BY <1>1
<1>3. CASE from > to
  BY <1>2, <1>3 DEF Between
<1>4. CASE ~(from > to)
  <2>1. PICK n \in Nat : n = to - from + 1 /\ n >= 1 /\ n <= H + 1
    BY <1>2, <1>4
  <2>2. PICK k \in Int : /\ k = Int_(n) /\ -(H + 1) <= k /\ k <= H
                         /\ k = IF n <= H THEN n ELSE n - V
    <3>1. -(IntMax + 1) <= n /\ n <= UIntMax
      BY <1>1, <2>1, ValuesAre
    <3> QED BY <1>1, <2>1, <3>1, IntIs
  <2>3. Between(from, to) = SizeT(k)
    BY <1>4, <2>1, <2>2 DEF Between
  <2>4. SizeT(k) \in 0..W - 1 /\ SizeT(k) = IF k >= 0 THEN k ELSE k + W
    <3>1. k >= 0 => k \in 0..W - 1
      BY <1>1, <2>2
    <3>2. k + W >= 0
      BY <1>1, <2>2
    <3> QED BY <1>1, <3>1, <3>2, SizeTIs
  <2>5. k # 0 /\ k + W # 0
    BY <1>1, <2>1, <2>2
  <2>6. n <= H => SizeT(k) = n
    BY <2>1, <2>2, <2>4
  <2>7. PICK b \in Nat : b = Between(from, to) /\ b # 0 /\ (n <= H => b = n)
    <3>1. PICK b : b = Between(from, to)
      OBVIOUS
    <3>2. b = IF k >= 0 THEN k ELSE k + W
      BY <2>3, <2>4, <3>1
    <3>3. b \in Nat
      <4>1. b \in 0..W - 1 /\ W \in Nat
        BY <2>3, <2>4, <3>1
      <4> QED BY ONLY <4>1
    <3>4. n <= H => b = n
      BY <2>3, <2>6, <3>1
    <3> QED BY <2>5, <3>1, <3>2, <3>3, <3>4
  <2>8. to - from < H => n <= H
    BY <1>2, <2>1
  <2> QED BY <1>1, <1>2, <1>4, <2>1, <2>7, <2>8
<1> QED BY <1>2, <1>3, <1>4

LEMMA NoSub ==
  ASSUME NEW S, NEW t \in Seq(S), NEW a \in Int
  PROVE  SubSeq(t, a + 1, a) = <<>>
<1> DEFINE p == SubSeq(t, a + 1, a)
<1>1. a + 1 \in Int /\ ~(a + 1 <= a) /\ \A i \in a + 1..a : t[i] \in S
  OBVIOUS
<1>2. p \in Seq(S) /\ Len(p) = IF a + 1 <= a THEN a - (a + 1) + 1 ELSE 0
  BY <1>1, SubSeqProperties
<1> HIDE DEF p
<1>3. p \in Seq(S) /\ Len(p) = 0
  BY <1>1, <1>2
<1>4. p = <<>>
  BY <1>3
<1> QED BY <1>4 DEF p

LEMMA WholePrefix ==
  ASSUME NEW S, NEW t \in Seq(S)
  PROVE  SubSeq(t, 1, Len(t)) = t
<1>1. PICK n \in Nat : n = Len(t)
  OBVIOUS
<1> DEFINE p == SubSeq(t, 1, n)
<1>2. p \in Seq(S) /\ Len(p) = n /\ \A i \in 1..n : p[i] = t[i]
  <2>1. n \in 0..Len(t)
    BY <1>1
  <2> QED BY <1>1, <2>1, PrefixIs
<1> HIDE DEF p
<1>3. p = t
  BY <1>1, <1>2
<1> QED BY <1>1, <1>3 DEF p

LEMMA ShortenText ==
  ASSUME NEW s \in String, NEW t \in Seq(Bytes), Len(t) <= Len(s.text), Len(s.text) <= UIntMax
  PROVE  Shorten(s, t).text = t
<1>1. PICK n \in Nat, f \in Nat, k \in Nat :
        n = Len(s.text) /\ f = s.free /\ k = Len(t) /\ k <= n /\ n <= UIntMax
  BY TextIs
<1>2. PICK g \in Int : g = f + n - k
  OBVIOUS
<1>3. Shorten(s, t) = Put(s, t, k, g)
  BY <1>1, <1>2 DEF Shorten
<1>4. UInt(k) = k
  <2>1. k \in 0..UIntMax /\ k \in Int
    BY <1>1, ValuesAre
  <2> QED BY <2>1, UIntIs
<1>5. Put(s, t, k, g).text = SubSeq(t, 1, k)
  <2>1. k \in Nat /\ UInt(k) <= Len(t)
    BY <1>1, <1>4
  <2>2. Put(s, t, k, g).text = SubSeq(t, 1, UInt(k))
    BY DEF Put, String
  <2> QED BY <1>4, <2>2
<1> QED BY <1>1, <1>3, <1>5, WholePrefix

(* How many bytes there are from a to b, in a text of length len. *)
Kept(a, b, len) ==
  IF a > b \/ a >= len THEN 0 ELSE IF b >= len THEN len - a ELSE b - a + 1

LEMMA RangeIs ==
  ASSUME NEW s \in String, Len(s.text) <= UIntMax, Len(s.text) # 0,
         NEW i \in Indices, NEW j \in Indices
  PROVE  \E a \in Nat, m \in Nat :
           /\ Sdsrange(s, i, j) = Shorten(s, SubSeq(s.text, a + 1, a + m))
           /\ m # 0 => a + m <= Len(s.text)
           /\ IF Len(s.text) <= IntMax
                THEN a = At(i, Len(s.text)) /\ m = Kept(a, At(j, Len(s.text)), Len(s.text))
                ELSE m = 0
<1>1. PICK len \in Nat : len = Len(s.text) /\ len \in 0..UIntMax /\ len # 0
  BY TextIs, ValuesAre
<1>2. PICK H \in Nat, V \in Nat : H = IntMax /\ V = Values /\ V = 2 * H + 2 /\ UIntMax = V - 1
  BY ValuesAre
<1>3. PICK a \in Nat, b \in Nat :
        /\ a = FromEnd(i, len) /\ b = FromEnd(j, len) /\ a <= H /\ b <= H
        /\ len <= H => a = At(i, len) /\ b = At(j, len)
  BY <1>1, <1>2, FromEndIs
<1>4. PICK c \in Int : c = Int_(len) /\ c = IF len <= H THEN len ELSE len - V
  BY <1>1, <1>2, IntIs
<1>5. PICK w \in Nat : /\ w = Between(a, b) /\ (w = 0 <=> a > b)
                       /\ (a <= b /\ b - a < H => w = b - a + 1)
  <2>1. a \in 0..IntMax /\ b \in 0..IntMax
    BY <1>2, <1>3
  <2>2. PICK w : w = Between(a, b)
    OBVIOUS
  <2>3. /\ w \in Nat /\ (w = 0 <=> a > b)
        /\ a <= b /\ b - a < IntMax => w = b - a + 1
    BY <2>1, <2>2, BetweenIs
  <2> QED BY <1>2, <2>2, <2>3
<1>6. PICK m : m = IF w = 0 \/ a >= c THEN 0
                   ELSE IF b >= c THEN Between(a, Int_(len - 1)) ELSE w
  OBVIOUS
<1>7. Sdsrange(s, i, j) = Shorten(s, SubSeq(s.text, a + 1, a + m))
  BY <1>1, <1>3, <1>4, <1>5, <1>6 DEF Sdsrange
<1>8. CASE len > H
  <2>1. c < 0
    <3>1. len <= V - 1
      BY <1>1, <1>2
    <3>2. c = len - V
      BY <1>4, <1>8
    <3> QED BY ONLY <3>1, <3>2, len \in Nat, V \in Nat
  <2>2. m = 0
    BY <1>6, <2>1
  <2> QED BY <1>1, <1>2, <1>3, <1>7, <1>8, <2>2
<1>9. CASE len <= H
  <2>1. c = len
    BY <1>4, <1>9
  <2>2. ASSUME a <= b, a < len, b >= len
        PROVE  Between(a, Int_(len - 1)) = len - a
    <3>1. PICK e \in Nat : e = len - 1 /\ e \in 0..IntMax
      BY <1>1, <1>2, <1>9
    <3>2. Int_(e) = e
      BY <1>2, <3>1, IntIs
    <3>3. a \in 0..IntMax /\ a <= e /\ e - a < IntMax
      BY <1>2, <1>3, <1>9, <2>2, <3>1
    <3>4. Between(a, e) = e - a + 1
      BY <3>1, <3>3, BetweenIs
    <3> QED BY <3>1, <3>2, <3>4
  <2>3. a <= b /\ b < len => w = b - a + 1
    BY <1>5, <1>9
  <2>4. m = Kept(a, b, len)
    <3>1. CASE a > b \/ a >= len
      BY <1>5, <1>6, <2>1, <3>1 DEF Kept
    <3>2. CASE a <= b /\ a < len
      BY <1>5, <1>6, <2>1, <2>2, <2>3, <3>2 DEF Kept
    <3> QED BY <3>1, <3>2
  <2>5. m \in Nat /\ (m # 0 => a + m <= len)
    BY <2>4 DEF Kept
  <2>6. a = At(i, len) /\ b = At(j, len)
    BY <1>3, <1>9
  <2> QED BY <1>1, <1>2, <1>7, <1>9, <2>4, <2>5, <2>6
<1> QED BY <1>2, <1>8, <1>9

LEMMA RangeSub ==
  ASSUME NEW t \in Seq(Bytes), NEW a \in Nat, NEW m \in Nat, m # 0 => a + m <= Len(t)
  PROVE  /\ SubSeq(t, a + 1, a + m) \in Seq(Bytes)
         /\ Len(SubSeq(t, a + 1, a + m)) <= Len(t)
<1>1. PICK n \in Nat : n = Len(t)
  OBVIOUS
<1>2. CASE m = 0
  <2>1. SubSeq(t, a + 1, a + m) = <<>>
    <3>1. a + m = a
      BY <1>2
    <3> QED BY <3>1, NoSub
  <2>2. <<>> \in Seq(Bytes) /\ Len(<<>>) = 0
    OBVIOUS
  <2> QED BY <1>1, <2>1, <2>2
<1>3. CASE m # 0
  <2>1. PICK x \in Nat, y \in Nat :
          x = a + 1 /\ y = a + m /\ x \in 1..Len(t) + 1 /\ y \in x - 1..Len(t) /\ y - x + 1 = m
    BY <1>1, <1>3
  <2>2. SubSeq(t, x, y) \in Seq(Bytes) /\ Len(SubSeq(t, x, y)) = m
    BY <2>1, SubSeqIs
  <2> QED BY <1>1, <1>3, <2>1, <2>2
<1> QED BY <1>2, <1>3

LEMMA RangeGood ==
  ASSUME NEW s, Good(s), NEW i \in Indices, NEW j \in Indices
  PROVE  Good(Sdsrange(s, i, j))
<1>1. CASE Len(s.text) = 0
  BY <1>1 DEF Sdsrange
<1>2. CASE Len(s.text) # 0
  <2>1. s \in String /\ s.text \in Seq(Bytes) /\ Len(s.text) <= UIntMax
    BY TextIs DEF Good
  <2>2. PICK a \in Nat, m \in Nat :
          /\ Sdsrange(s, i, j) = Shorten(s, SubSeq(s.text, a + 1, a + m))
          /\ m # 0 => a + m <= Len(s.text)
          /\ IF Len(s.text) <= IntMax
               THEN a = At(i, Len(s.text)) /\ m = Kept(a, At(j, Len(s.text)), Len(s.text))
               ELSE m = 0
    BY <1>2, <2>1, RangeIs
  <2> QED BY <2>1, <2>2, RangeSub, ShortenGood
<1> QED BY <1>1, <1>2

(* The bytes that KeepsRange counts. *)
LEMMA KeptIs ==
  ASSUME NEW len \in Nat, NEW a \in Nat, NEW b \in Nat
  PROVE  Cardinality({k \in 1..len : a < k /\ k <= b + 1}) = Kept(a, b, len)
<1> DEFINE e == IF b >= len THEN len ELSE b + 1
<1>1. {k \in 1..len : a < k /\ k <= b + 1} = a + 1..e
  OBVIOUS
<1>2. e \in Int /\ a + 1 \in Int
  OBVIOUS
<1>3. Cardinality(a + 1..e) = IF a + 1 > e THEN 0 ELSE e - (a + 1) + 1
  BY <1>2, FS_Interval
<1>4. Kept(a, b, len) = IF a + 1 > e THEN 0 ELSE e - (a + 1) + 1
  BY DEF Kept
<1> QED BY <1>1, <1>3, <1>4

LEMMA RangeKept ==
  ASSUME NEW s, s \in String, Len(s.text) <= IntMax, NEW i \in Indices, NEW j \in Indices
  PROVE  LET len  == Len(s.text)
             kept == {k \in DOMAIN s.text : At(i, len) < k /\ k <= At(j, len) + 1}
         IN  Sdsrange(s, i, j).text
               = SubSeq(s.text, At(i, len) + 1, At(i, len) + Cardinality(kept))
<1>1. PICK len \in Nat, t \in Seq(Bytes) :
        len = Len(s.text) /\ t = s.text /\ DOMAIN t = 1..len /\ len <= IntMax
  BY TextIs
<1>a. Len(s.text) <= UIntMax
  BY <1>1, ValuesAre
<1>2. PICK x, y : x = At(i, len) /\ y = At(j, len)
  OBVIOUS
<1>3. x \in Nat /\ y \in Nat
  <2>1. i \in Int /\ j \in Int
    BY ValuesAre DEF Indices
  <2> QED BY <1>2, <2>1 DEF At
<1> DEFINE kept == {k \in DOMAIN t : x < k /\ k <= y + 1}
<1>4. Sdsrange(s, i, j).text = SubSeq(t, x + 1, x + Cardinality(kept))
  <2>1. CASE len = 0
    <3>1. Sdsrange(s, i, j) = s /\ t = <<>>
      <4>1. t = <<>>
        <5>1. t # <<>> => Len(t) \in Nat \ {0}
          BY EmptySeq
        <5> QED BY <1>1, <2>1, <5>1
      <4> QED BY <1>1, <2>1, <4>1 DEF Sdsrange
    <3>2. kept = {}
      BY <1>1, <2>1
    <3>3. Cardinality(kept) = 0 /\ x + 0 = x
      <4>1. Cardinality(kept) = 0
        BY <3>2, FS_EmptySet
      <4> QED BY <1>3, <4>1
    <3> QED BY <1>1, <1>3, <3>1, <3>3, NoSub
  <2>2. CASE len # 0
    <3>1. PICK a \in Nat, m \in Nat :
            /\ Sdsrange(s, i, j) = Shorten(s, SubSeq(t, a + 1, a + m))
            /\ m # 0 => a + m <= len
            /\ a = x /\ m = Kept(a, y, len)
      <4>1. Len(s.text) # 0
        BY <1>1, <2>2
      <4>2. PICK a \in Nat, m \in Nat :
              /\ Sdsrange(s, i, j) = Shorten(s, SubSeq(s.text, a + 1, a + m))
              /\ m # 0 => a + m <= Len(s.text)
              /\ IF Len(s.text) <= IntMax
                   THEN a = At(i, Len(s.text)) /\ m = Kept(a, At(j, Len(s.text)), Len(s.text))
                   ELSE m = 0
        BY <1>a, <4>1, RangeIs
      <4> QED BY <1>1, <1>2, <4>2
    <3>2. Sdsrange(s, i, j).text = SubSeq(t, a + 1, a + m)
      <4>1. PICK p : p = SubSeq(t, a + 1, a + m)
        OBVIOUS
      <4>2. p \in Seq(Bytes) /\ Len(p) <= Len(t)
        BY <1>1, <3>1, <4>1, RangeSub
      <4>3. Shorten(s, p).text = p
        BY <1>1, <1>a, <4>2, ShortenText
      <4> QED BY <3>1, <4>1, <4>3
    <3>3. kept = {k \in 1..len : x < k /\ k <= y + 1}
      BY <1>1
    <3>4. Cardinality(kept) = m
      <4>1. Cardinality({k \in 1..len : x < k /\ k <= y + 1}) = Kept(x, y, len)
        BY <1>3, KeptIs
      <4> QED BY <3>1, <3>3, <4>1
    <3> QED BY <3>1, <3>2, <3>4
  <2> QED BY <2>1, <2>2
<1> QED BY <1>1, <1>2, <1>4


-----------------------------------------------------------------------------
(***************************************************************************)
(* The memory of the strings.                                              *)
(***************************************************************************)
Cost(s)   == Padded(BlockOf(s) + Word)
LiveIn(f) == {n \in Names : f[n] # NULL}
Costs(f)  == [n \in LiveIn(f) |-> Cost(f[n])]

(* zrealloc takes and adds a block without its prefix, zmalloc and zfree   *)
(* with it: the sums agree because the prefix is a whole word.             *)
LEMMA PaddedIs ==
  ASSUME NEW n \in Nat
  PROVE  Padded(n) \in Nat /\ Padded(n + Word) = Padded(n) + Word
<1>1. PICK W \in Nat \ {0} : W = Word
  BY SizeAssumption
<1>2. PICK a \in Nat, b \in Nat : a = n % W /\ b = (n + W) % W /\ a < W /\ b < W
  <2>1. PICK m \in Int : m = n + W
    OBVIOUS
  <2>2. n % W \in 0..W - 1 /\ m % W \in 0..W - 1
    BY ModIs
  <2> QED BY <2>1, <2>2
<1>3. a = b
  <2>1. PICK p \in Int : n = p * W + a
    <3>1. PICK m \in Int : m = n
      OBVIOUS
    <3>2. PICK p \in Int : m = p * W + (m % W)
      BY ModIs
    <3> QED BY <1>2, <3>1, <3>2
  <2>2. PICK q \in Int : n + W = q * W + b
    <3>1. PICK m \in Int : m = n + W
      OBVIOUS
    <3>2. PICK q \in Int : m = q * W + (m % W)
      BY ModIs
    <3> QED BY <1>2, <3>1, <3>2
  <2>3. PICK d \in Int : d = p + 1 - q
    OBVIOUS
  <2>4. b - a = d * W
    BY <2>1, <2>2, <2>3
  <2>5. d = 0
    <3>1. d >= 1 => d * W >= W
      OBVIOUS
    <3>2. d <= -1 => d * W <= -W
      OBVIOUS
    <3> QED BY <1>2, <2>4, <3>1, <3>2
  <2> QED BY <2>4, <2>5
<1>4. (W - a) % W \in Nat
  BY ModIs
<1> QED BY <1>1, <1>2, <1>3, <1>4 DEF Padded

LEMMA CostIs ==
  ASSUME NEW s \in String
  PROVE  Cost(s) \in Nat /\ BlockOf(s) \in Nat /\ Cost(s) = Padded(BlockOf(s)) + Word
<1>1. BlockOf(s) \in Nat
  BY TextIs, SizeAssumption DEF BlockOf
<1>2. Word \in Nat
  BY SizeAssumption
<1> QED BY <1>1, <1>2, PaddedIs DEF Cost

(* What a string costs can be taken apart from the others. *)
LEMMA CostsSplit ==
  ASSUME NEW f, \A m \in LiveIn(f) : f[m] \in String, NEW n \in Names
  PROVE  /\ Total(Costs(f)) \in Nat /\ Total(Less(Costs(f), n)) \in Nat
         /\ Total(Costs(f)) = (IF f[n] = NULL THEN 0 ELSE Cost(f[n])) + Total(Less(Costs(f), n))
<1>1. PICK S, c : S = LiveIn(f) /\ c = Costs(f)
  OBVIOUS
<1>2. IsFiniteSet(S) /\ S \subseteq Names
  BY <1>1, NamesAssumption, FS_Subset DEF LiveIn
<1>3. c \in [S -> Nat]
  BY <1>1, CostIs DEF Costs
<1>4. Total(c) \in Nat
  BY <1>2, <1>3, TotalUnfold
<1>5. CASE f[n] = NULL
  <2>1. n \notin S
    BY <1>1, <1>5 DEF LiveIn
  <2>2. Less(c, n) = c
    BY <1>3, <2>1 DEF Less
  <2> QED BY <1>1, <1>4, <1>5, <2>2
<1>6. CASE f[n] # NULL
  <2>1. n \in S /\ c[n] = Cost(f[n])
    BY <1>1, <1>6 DEF LiveIn, Costs
  <2>2. Total(c) = c[n] + Total(Less(c, n))
    BY <1>2, <1>3, <2>1, TotalSplit
  <2>3. IsFiniteSet(S \ {n}) /\ Less(c, n) \in [S \ {n} -> Nat]
    BY <1>2, <1>3, FS_RemoveElement DEF Less
  <2>4. Total(Less(c, n)) \in Nat
    BY <2>3, TotalUnfold
  <2> QED BY <1>1, <1>4, <1>6, <2>1, <2>2, <2>4
<1> QED BY <1>5, <1>6

LEMMA OthersCost ==
  ASSUME NEW f, f = [m \in Names |-> f[m]], NEW n \in Names, NEW s, NEW g,
         g = [f EXCEPT ![n] = s]
  PROVE  Less(Costs(g), n) = Less(Costs(f), n) /\ g = [m \in Names |-> g[m]] /\ g[n] = s
<1>1. g = [m \in Names |-> g[m]] /\ g[n] = s /\ \A m \in Names \ {n} : g[m] = f[m]
  OBVIOUS
<1>2. LiveIn(g) \ {n} = LiveIn(f) \ {n}
  BY <1>1 DEF LiveIn
<1>3. DOMAIN Costs(g) = LiveIn(g) /\ DOMAIN Costs(f) = LiveIn(f)
  BY DEF Costs
<1>4. \A m \in LiveIn(f) \ {n} : Costs(g)[m] = Costs(f)[m]
  BY <1>1, <1>2 DEF Costs, LiveIn
<1> QED BY <1>1, <1>2, <1>3, <1>4 DEF Less

-----------------------------------------------------------------------------
(***************************************************************************)
(* The invariant: the strings are good and what they cost is counted.      *)
(***************************************************************************)
IInv ==
  /\ str = [n \in Names |-> str[n]]
  /\ \A n \in Live : Good(str[n])
  /\ used_memory = Total(Costs(str))
  /\ used_memory \in 0..Memory

LEMMA AccountedIs ==
  Accounted <=> used_memory = Total(Costs(str))
BY DEF Accounted, Total, Costs, Cost, LiveIn, Live

LEMMA Kind ==
  ASSUME NEW s, Good(s)
  PROVE  s \in String /\ s # NULL
BY NullAssumption DEF Good

(* Every call leaves the other strings alone. *)
LEMMA Replaced ==
  ASSUME IInv, NEW n \in Names, NEW s, Good(s) \/ s = NULL, str' = [str EXCEPT ![n] = s]
  PROVE  /\ str' = [m \in Names |-> str'[m]]
         /\ \A m \in Live' : Good(str'[m])
         /\ Total(Costs(str')) \in Nat /\ used_memory \in Nat
         /\ Total(Costs(str')) = used_memory - (IF str[n] = NULL THEN 0 ELSE Cost(str[n]))
                                             + (IF s = NULL THEN 0 ELSE Cost(s))
<1>1. /\ Less(Costs(str'), n) = Less(Costs(str), n)
      /\ str' = [m \in Names |-> str'[m]] /\ str'[n] = s
  BY OthersCost DEF IInv
<1>2. \A m \in Live' : Good(str'[m])
  BY DEF IInv, Live
<1>3. /\ \A m \in LiveIn(str) : str[m] \in String
      /\ \A m \in LiveIn(str') : str'[m] \in String
  BY <1>2, Kind DEF IInv, Live, LiveIn
<1>4. PICK a \in Nat, b \in Nat, c \in Nat :
        a = Total(Costs(str)) /\ b = Total(Costs(str')) /\ c = Total(Less(Costs(str), n))
  BY <1>1, <1>3, CostsSplit
<1>5. a = (IF str[n] = NULL THEN 0 ELSE Cost(str[n])) + c
  BY <1>3, <1>4, CostsSplit
<1>6. b = (IF s = NULL THEN 0 ELSE Cost(s)) + c
  BY <1>1, <1>3, <1>4, CostsSplit
<1>7. (str[n] # NULL => Cost(str[n]) \in Nat) /\ (s # NULL => Cost(s) \in Nat)
  BY <1>1, <1>3, CostIs DEF LiveIn
<1>8. used_memory = a
  BY <1>4 DEF IInv
<1> QED BY <1>1, <1>2, <1>4, <1>5, <1>6, <1>7, <1>8

LEMMA NewKeeps ==
  ASSUME IInv, NEW n \in Names, NEW s, Good(s), New(n, s)
  PROVE  IInv'
<1>1. /\ str[n] = NULL /\ str' = [str EXCEPT ![n] = s]
      /\ used_memory' = used_memory + Cost(s) /\ used_memory' <= Memory
  BY DEF New, ZMalloc, Cost
<1>2. s # NULL /\ Cost(s) \in Nat
  BY Kind, CostIs
<1>3. /\ str' = [m \in Names |-> str'[m]]
      /\ \A m \in Live' : Good(str'[m])
      /\ Total(Costs(str')) \in Nat /\ used_memory \in Nat
      /\ Total(Costs(str')) = used_memory - 0 + Cost(s)
  BY <1>1, <1>2, Replaced
<1>4. used_memory' = Total(Costs(str')) /\ used_memory' \in 0..Memory
  BY <1>1, <1>2, <1>3, SizeAssumption
<1> QED BY <1>3, <1>4 DEF IInv

LEMMA FreeKeeps ==
  ASSUME IInv, NEW n \in Live, Free(n)
  PROVE  IInv'
<1>1. n \in Names /\ Good(str[n]) /\ str[n] # NULL
  BY DEF IInv, Live
<1>2. str' = [str EXCEPT ![n] = NULL] /\ used_memory' = used_memory - Cost(str[n])
  BY DEF Free, ZFree, Cost
<1>3. Cost(str[n]) \in Nat
  BY <1>1, Kind, CostIs
<1>4. /\ str' = [m \in Names |-> str'[m]]
      /\ \A m \in Live' : Good(str'[m])
      /\ Total(Costs(str')) \in Nat /\ used_memory \in Nat
      /\ Total(Costs(str')) = used_memory - Cost(str[n]) + 0
  BY <1>1, <1>2, Replaced
<1>5. used_memory' = Total(Costs(str')) /\ used_memory' \in 0..Memory
  BY <1>2, <1>3, <1>4, SizeAssumption DEF IInv
<1> QED BY <1>4, <1>5 DEF IInv

LEMMA BecomeKeeps ==
  ASSUME IInv, NEW n \in Live, NEW s, Good(s), Become(n, s)
  PROVE  IInv'
<1>1. n \in Names /\ Good(str[n]) /\ str[n] # NULL /\ s # NULL
  BY Kind DEF IInv, Live
<1>2. str' = [str EXCEPT ![n] = s] /\ used_memory' <= Memory
  BY DEF Become
<1>3. /\ str' = [m \in Names |-> str'[m]]
      /\ \A m \in Live' : Good(str'[m])
      /\ Total(Costs(str')) \in Nat /\ used_memory \in Nat
      /\ Total(Costs(str')) = used_memory - Cost(str[n]) + Cost(s)
  BY <1>1, <1>2, Replaced
<1>4. /\ Cost(str[n]) \in Nat /\ Cost(str[n]) = Padded(BlockOf(str[n])) + Word
      /\ Cost(s) \in Nat /\ Cost(s) = Padded(BlockOf(s)) + Word
      /\ BlockOf(s) \in Nat /\ BlockOf(str[n]) \in Nat
  BY <1>1, Kind, CostIs
<1>5. used_memory' = used_memory - Cost(str[n]) + Cost(s)
  <2>1. CASE s.size = str[n].size
    <3>1. used_memory' = used_memory
      BY <2>1 DEF Become
    <3>2. Cost(s) = Cost(str[n])
      BY <2>1 DEF Cost, BlockOf
    <3> QED BY <1>3, <1>4, <3>1, <3>2
  <2>2. CASE s.size # str[n].size
    <3>1. used_memory' = used_memory - Padded(BlockOf(str[n])) + Padded(BlockOf(s))
      BY <2>2 DEF Become, ZRealloc
    <3>2. Padded(BlockOf(str[n])) \in Nat /\ Padded(BlockOf(s)) \in Nat /\ Word \in Nat
      BY <1>4, PaddedIs, SizeAssumption
    <3> QED BY <1>3, <1>4, <3>1, <3>2
  <2> QED BY <2>1, <2>2
<1>6. used_memory' = Total(Costs(str')) /\ used_memory' \in 0..Memory
  BY <1>2, <1>3, <1>5, SizeAssumption
<1> QED BY <1>3, <1>6 DEF IInv

-----------------------------------------------------------------------------
(* What callers pass. *)
LEMMA TextsAre ==
  ASSUME NEW t \in Texts
  PROVE  t \in Seq(Bytes) /\ Len(t) \in Nat /\ Len(t) <= IntMax /\ Len(t) <= UIntMax
<1>1. t \in Seq(Range(t)) /\ Len(t) <= IntMax
  BY TextAssumption
<1>2. PICK n \in Nat : n = Len(t) /\ DOMAIN t = 1..n /\ t = [i \in 1..n |-> t[i]]
  BY <1>1
<1>3. \A i \in 1..n : t[i] \in Bytes
  <2>1. \A i \in 1..n : t[i] \in Range(t)
    BY <1>2 DEF Range
  <2> QED BY <2>1 DEF Bytes
<1>4. t \in Seq(Bytes)
  <2>1. t \in [1..n -> Bytes]
    BY <1>2, <1>3
  <2>2. [1..n -> Bytes] \subseteq Seq(Bytes)
    OBVIOUS
  <2> QED BY ONLY <2>1, <2>2
<1>5. PICK H \in Nat, U \in Nat : H = IntMax /\ U = UIntMax /\ H <= U
  BY ValuesAre
<1>6. n <= H /\ n <= U
  BY <1>1, <1>2, <1>5
<1> QED BY <1>2, <1>4, <1>5, <1>6

LEMMA CountsAre ==
  ASSUME NEW c \in Counts
  PROVE  c \in Nat /\ c \in 0..IntMax
BY CountAssumption, ValuesAre

LEMMA LiveIs ==
  ASSUME IInv, NEW n \in Live
  PROVE  /\ n \in Names /\ Good(str[n])
         /\ str[n].text \in Seq(Bytes) /\ Len(str[n].text) <= UIntMax
<1>1. n \in Names /\ Good(str[n])
  BY DEF IInv, Live
<1> QED BY <1>1, TextIs DEF Good

LEMMA Starts ==
  Init => IInv
<1> SUFFICES ASSUME Init PROVE IInv
  OBVIOUS
<1>1. str = [n \in Names |-> str[n]] /\ LiveIn(str) = {} /\ Live = {}
  BY DEF Init, LiveIn, Live
<1>2. Costs(str) \in [{} -> Nat] /\ IsFiniteSet({})
  BY <1>1, FS_EmptySet DEF Costs
<1>3. Total(Costs(str)) = 0
  BY <1>2, TotalUnfold
<1> QED BY <1>1, <1>3, SizeAssumption DEF Init, IInv

LEMMA NulledGood ==
  ASSUME NEW s, Good(s), NEW i \in DOMAIN s.text
  PROVE  Good([s EXCEPT !.text[i] = NUL])
<1>1. PICK n \in Nat : n = Len(s.text) /\ s.text \in Seq(Bytes) /\ DOMAIN s.text = 1..n
  BY TextIs DEF Good
<1>2. PICK t : t = [s.text EXCEPT ![i] = NUL]
  OBVIOUS
<1>3. t \in Seq(Bytes) /\ Len(t) = n
  BY <1>1, <1>2 DEF Bytes
<1>4. PICK r : r = [s EXCEPT !.text = t]
  OBVIOUS
<1>5. s \in String
  BY DEF Good
<1>6. /\ r \in String /\ r.text = t /\ r.free = s.free /\ r.size = s.size
      /\ r.bad = s.bad
  BY ONLY <1>3, <1>4, <1>5 DEF String
<1>7. r = [s EXCEPT !.text[i] = NUL]
  BY <1>2, <1>4, <1>5 DEF String
<1>8. Good(r)
  BY <1>1, <1>3, <1>6 DEF Good, Holds
<1> QED BY <1>7, <1>8

LEMMA Step ==
  IInv /\ [Next]_vars => IInv'
<1> SUFFICES ASSUME IInv, [Next]_vars PROVE IInv'
  OBVIOUS
<1>1. ASSUME NEW n \in Names \ Live, NEW t \in Texts, Create(n, t) PROVE IInv'
  BY <1>1, TextsAre, NewGood, NewKeeps DEF Create
<1>2. ASSUME NEW n \in Names \ Live, NEW c \in Counts, CreateZero(n, c) PROVE IInv'
  <2>1. Zeros(c) \in Seq(Bytes)
    BY CountsAre, ZerosAre
  <2> QED BY <1>2, <2>1, NewGood, NewKeeps DEF CreateZero
<1>3. ASSUME NEW n \in Names \ Live, NEW m \in Live, Dup(n, m) PROVE IInv'
  BY <1>3, LiveIs, NewGood, NewKeeps DEF Dup
<1>4. ASSUME NEW n \in Live, Free(n) PROVE IInv'
  BY <1>4, FreeKeeps
<1>5. ASSUME NEW n \in Live, NEW t \in Texts, CatLen(n, t) PROVE IInv'
  BY <1>5, LiveIs, TextsAre, CatGood, BecomeKeeps DEF CatLen
<1>6. ASSUME NEW n \in Live, NEW m \in Live, CatSds(n, m) PROVE IInv'
  BY <1>6, LiveIs, CatGood, BecomeKeeps DEF CatSds
<1>7. ASSUME NEW n \in Live, NEW t \in Texts, CpyLen(n, t) PROVE IInv'
  BY <1>7, LiveIs, TextsAre, CpyGood, BecomeKeeps DEF CpyLen
<1>8. ASSUME NEW n \in Live, NEW c \in Counts, GrowZero(n, c) PROVE IInv'
  BY <1>8, LiveIs, CountsAre, GrowGood, BecomeKeeps DEF GrowZero
<1>9. ASSUME NEW n \in Live, RemoveFree(n) PROVE IInv'
  BY <1>9, LiveIs, RemoveFreeGood, BecomeKeeps DEF RemoveFree
<1>10. ASSUME NEW n \in Live, Clear(n) PROVE IInv'
  BY <1>10, LiveIs, ClearGood, BecomeKeeps DEF Clear
<1>11. ASSUME NEW n \in Live, NEW b \in Bytes, TrimBy(n, b) PROVE IInv'
  BY <1>11, LiveIs, TrimGood, BecomeKeeps DEF TrimBy
<1>12. ASSUME NEW n \in Live, NEW i \in Indices, NEW j \in Indices, KeepRange(n, i, j)
       PROVE IInv'
  BY <1>12, LiveIs, RangeGood, BecomeKeeps DEF KeepRange
<1>13. ASSUME NEW n \in Live, NEW c \in Counts, NEW t \in Texts, ReadInto(n, c, t)
       PROVE IInv'
  <2>1. Good(SdsIncrLen(SdsMakeRoomFor(str[n], c), t, Len(t)))
    BY <1>13, LiveIs, CountsAre, TextsAre, ReadGood DEF ReadInto
  <2> QED BY <1>13, <2>1, BecomeKeeps DEF ReadInto
<1>a. ASSUME NEW n \in Live, NEW c \in Counts, ReadNothing(n, c) PROVE IInv'
  <2>1. Good(SdsMakeRoomFor(str[n], c))
    BY LiveIs, CountsAre, ValuesAre, RoomMade
  <2> QED BY <1>a, <2>1, BecomeKeeps DEF ReadNothing
<1>14. ASSUME NEW n \in Live, NEW c \in Counts, CutRight(n, c) PROVE IInv'
  <2>1. Good(SdsIncrLen(str[n], <<>>, -c))
    BY <1>14, LiveIs, CountsAre, CutGood DEF CutRight
  <2> QED BY <1>14, <2>1, BecomeKeeps DEF CutRight
<1>15. ASSUME NEW n \in Live, NEW i \in 1..UIntMax, UpdateLen(n, i) PROVE IInv'
  <2>1. Good(Sdsupdatelen([str[n] EXCEPT !.text[i] = NUL]))
    BY <1>15, LiveIs, NulledGood, UpdateGood DEF UpdateLen
  <2> QED BY <1>15, <2>1, BecomeKeeps DEF UpdateLen
<1>16. CASE UNCHANGED vars
  BY <1>16 DEF vars, IInv, Live
<1> QED
  BY <1>1, <1>2, <1>3, <1>4, <1>5, <1>6, <1>7, <1>8, <1>9, <1>10, <1>11, <1>12,
     <1>13, <1>a, <1>14, <1>15, <1>16 DEF Next

(* Every state that calls reach satisfies the invariant.                   *)
THEOREM StringsGood == Spec => []IInv
BY Starts, Step, PTL DEF Spec

(* Len and free stay in the widths of the header, and zmalloc's count in   *)
(* the memory there is: it never goes below zero.                          *)
THEOREM TypeCorrect == Spec => []TypeOK
<1>1. IInv => TypeOK
  BY DEF IInv, TypeOK, Good
<1> QED BY <1>1, StringsGood, PTL

(* No sequence of calls writes behind the block of a string or fails the   *)
(* assertions of sdsIncrLen, whatever the lengths, those with which        *)
(* len + free + 1 wraps included.                                          *)
THEOREM StaysInBlock == Spec => []Fits
<1>1. IInv => Fits
  <2> SUFFICES ASSUME IInv, NEW n \in Live
               PROVE  /\ ~str[n].bad
                      /\ \E lost \in 0..str[n].size :
                           Len(str[n].text) + str[n].free + 1 = str[n].size - lost * Values
    BY DEF Fits
  <2>1. Good(str[n])
    BY LiveIs
  <2> QED BY <2>1, RoomLeft DEF Good
<1> QED BY <1>1, StringsGood, PTL

(* sdsrange keeps what its comment says, for every int of both indices and *)
(* every string whose length an int can say.                               *)
THEOREM RangeRight == Spec => []KeepsRange
<1>1. IInv => KeepsRange
  <2> SUFFICES ASSUME IInv, NEW n \in Live, NEW i \in Indices, NEW j \in Indices,
                      Len(str[n].text) <= IntMax
               PROVE  LET text  == str[n].text
                          at(k) == IF k >= 0 THEN k ELSE IF -k > Len(text) THEN 0 ELSE Len(text) + k
                          kept  == {k \in DOMAIN text : at(i) < k /\ k <= at(j) + 1}
                      IN Sdsrange(str[n], i, j).text
                           = SubSeq(text, at(i) + 1, at(i) + Cardinality(kept))
    BY DEF KeepsRange
  <2>1. str[n] \in String
    BY LiveIs DEF Good
  <2>2. LET text == str[n].text
            len  == Len(text)
            kept == {k \in DOMAIN text : At(i, len) < k /\ k <= At(j, len) + 1}
        IN  Sdsrange(str[n], i, j).text
              = SubSeq(text, At(i, len) + 1, At(i, len) + Cardinality(kept))
    BY <2>1, RangeKept
  <2> QED BY <2>2, Zenon DEF At
<1> QED BY <1>1, StringsGood, PTL

(* used_memory is what the live strings take, prefixes and padding         *)
(* included, although zrealloc counts blocks without the prefix.           *)
THEOREM MemoryCounted == Spec => []Accounted
<1>1. IInv => Accounted
  BY AccountedIs DEF IInv
<1> QED BY <1>1, StringsGood, PTL
=============================================================================
