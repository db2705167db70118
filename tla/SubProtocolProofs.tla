------------------------- MODULE SubProtocolProofs --------------------------
(***************************************************************************)
(* Proofs about SubProtocol, for any commands of any length, cut anywhere: *)
(* a subscriber that waits for its replies has every command executed as   *)
(* it was sent, and a connection whose parser stopped at a bad header      *)
(* executes nothing any more.                                              *)
(***************************************************************************)
EXTENDS SubProtocol, SequenceTheorems, FiniteSetTheorems, TLAPS

-----------------------------------------------------------------------------
(* Induction, as a fact about sets of naturals. *)

LEMMA Smallest ==
  ASSUME NEW T \in SUBSET Nat, T # {}
  PROVE  \E x \in T : \A y \in T : x <= y
<1> DEFINE R == OpToRel(<, Nat)
<1>1. IsWellFoundedOn(R, Nat)
  BY NatLessThanWellFounded
<1>2. \A x, y \in Nat : x < y => <<x, y>> \in R
  BY DEF OpToRel
<1> HIDE DEF R
<1>3. PICK x \in T : \A y \in T : ~ (<<y, x>> \in R)
  BY <1>1, WFMin
<1>4. \A y \in T : ~ (y < x)
  BY <1>2, <1>3
<1> QED BY <1>4

LEMMA Induction ==
  ASSUME NEW S, 0 \in S, \A n \in Nat : n \in S => n + 1 \in S
  PROVE  Nat \subseteq S
<1> DEFINE T == Nat \ S
<1>1. SUFFICES ASSUME T # {} PROVE FALSE
  OBVIOUS
<1>2. PICK x \in T : \A y \in T : x <= y
  BY <1>1, Smallest
<1>3. x # 0 /\ x - 1 \in Nat /\ x - 1 \notin T
  BY <1>2
<1> QED BY <1>3

-----------------------------------------------------------------------------
(* FlattenSeq, piece by piece: g[i] is the first i pieces joined. *)
Upto(s, n, g) ==
  /\ g[0] = <<>>
  /\ \A i \in 1..n : g[i] = g[i - 1] \o s[i]

LEMMA JoinsStep ==
  ASSUME NEW S, NEW s, NEW n \in Nat, s[n + 1] \in Seq(S),
         NEW g \in [0..n -> Seq(S)], Upto(s, n, g)
  PROVE  \E h \in [0..n + 1 -> Seq(S)] : Upto(s, n + 1, h)
<1> DEFINE x == g[n] \o s[n + 1]
           h == [i \in 0..n + 1 |-> IF i = n + 1 THEN x ELSE g[i]]
<1>1. x \in Seq(S)
  BY ConcatProperties
<1>2. \A i \in 0..n : g[i] \in Seq(S)
  OBVIOUS
<1> HIDE DEF x
<1>3. \A i \in 0..n + 1 : h[i] \in Seq(S)
  BY <1>1, <1>2
<1>4. h \in [0..n + 1 -> Seq(S)]
  BY <1>3
<1>5. \A i \in 0..n : h[i] = g[i]
  OBVIOUS
<1>6. h[n + 1] = x
  OBVIOUS
<1> HIDE DEF h
<1>7. h[0] = <<>>
  BY <1>5 DEF Upto
<1>8. ASSUME NEW i \in 1..n + 1 PROVE h[i] = h[i - 1] \o s[i]
  <2>1. CASE i = n + 1
    <3>1. i - 1 = n /\ n \in 0..n
      BY <2>1
    <3> QED BY <2>1, <3>1, <1>5, <1>6 DEF x
  <2>2. CASE i # n + 1
    <3>1. i \in 1..n /\ i \in 0..n /\ i - 1 \in 0..n
      BY <2>2
    <3> QED BY <3>1, <1>5 DEF Upto
  <2> QED BY <2>1, <2>2
<1>9. Upto(s, n + 1, h)
  BY <1>7, <1>8 DEF Upto
<1> QED BY <1>4, <1>9

LEMMA JoinsExist ==
  ASSUME NEW S, NEW L \in Nat, NEW s, \A i \in 1..L : s[i] \in Seq(S)
  PROVE  \E g \in [0..L -> Seq(S)] : Upto(s, L, g)
<1> DEFINE P(n) == n <= L => \E g \in [0..n -> Seq(S)] : Upto(s, n, g)
           I == {n \in Nat : P(n)}
<1>1. P(0)
  <2> DEFINE e == [i \in 0..0 |-> <<>>]
  <2>1. e \in [0..0 -> Seq(S)] /\ e[0] = <<>>
    BY EmptySeq
  <2>2. Upto(s, 0, e)
    BY <2>1 DEF Upto
  <2> QED BY <2>1, <2>2
<1>2. ASSUME NEW n \in Nat, P(n) PROVE P(n + 1)
  <2> SUFFICES ASSUME n + 1 <= L
               PROVE  \E g \in [0..n + 1 -> Seq(S)] : Upto(s, n + 1, g)
    OBVIOUS
  <2>1. PICK g \in [0..n -> Seq(S)] : Upto(s, n, g)
    BY <1>2
  <2>2. s[n + 1] \in Seq(S)
    OBVIOUS
  <2> QED BY <2>1, <2>2, JoinsStep
<1> HIDE DEF P
<1>3. 0 \in I /\ \A n \in Nat : n \in I => n + 1 \in I
  BY <1>1, <1>2
<1> HIDE DEF I
<1>4. L \in I
  BY <1>3, Induction
<1> USE DEF I, P
<1> QED BY <1>4

LEMMA FlattenIs ==
  ASSUME NEW S, NEW L \in Nat \ {0}, NEW s, NEW g, Len(s) = L, s[1] \in Seq(S),
         Upto(s, L, g)
  PROVE  FlattenSeq(s) = g[L]
<1> DEFINE F(f) == [i \in 1..L |-> IF i = 1 THEN s[i] ELSE f[i - 1] \o s[i]]
           c == CHOOSE f : f = F(f)
           w == [i \in 1..L |-> g[i]]
           P(n) == n + 1 <= L => c[n + 1] = g[n + 1]
           D == {n \in Nat : P(n)}
<1>1. FlattenSeq(s) = c[L]
  BY DEF FlattenSeq
<1>2. g[1] = s[1]
  <2>1. g[1] = <<>> \o s[1]
    <3>1. 1 \in 1..L /\ 1 - 1 = 0
      OBVIOUS
    <3> QED BY <3>1 DEF Upto
  <2> QED BY <2>1, ConcatEmptySeq
<1>3. \A i \in 1..L : w[i] = g[i]
  OBVIOUS
<1>4. w = F(w)
  <2>1. ASSUME NEW i \in 1..L
        PROVE  g[i] = IF i = 1 THEN s[i] ELSE w[i - 1] \o s[i]
    <3>1. CASE i = 1
      BY <3>1, <1>2
    <3>2. CASE i # 1
      <4>1. i - 1 \in 1..L
        BY <3>2
      <4>2. w[i - 1] = g[i - 1]
        BY <4>1
      <4> QED BY <3>2, <4>2 DEF Upto
    <3> QED BY <3>1, <3>2
  <2> QED BY <2>1
<1>5. c = F(c)
  <2>1. \E f : f = F(f)
    BY <1>4
  <2> QED BY <2>1
<1> HIDE DEF c
<1>6. P(0)
  <2>1. 1 \in 1..L /\ 0 + 1 = 1
    OBVIOUS
  <2>2. c[1] = s[1]
    BY <2>1, <1>5
  <2> QED BY <2>1, <2>2, <1>2
<1>7. ASSUME NEW n \in Nat, P(n) PROVE P(n + 1)
  <2> SUFFICES ASSUME n + 1 + 1 <= L PROVE c[n + 1 + 1] = g[n + 1 + 1]
    OBVIOUS
  <2> DEFINE j == n + 1 + 1
  <2>1. j \in 1..L /\ j # 1 /\ j - 1 = n + 1 /\ n + 1 <= L
    OBVIOUS
  <2> HIDE DEF j
  <2>2. c[j] = c[j - 1] \o s[j]
    BY <2>1, <1>5
  <2>3. g[j] = g[j - 1] \o s[j]
    BY <2>1 DEF Upto
  <2>4. c[j - 1] = g[j - 1]
    BY <2>1, <1>7
  <2>5. c[j] = g[j]
    BY <2>2, <2>3, <2>4
  <2> QED BY <2>5 DEF j
<1> HIDE DEF P
<1>8. 0 \in D /\ \A n \in Nat : n \in D => n + 1 \in D
  BY <1>6, <1>7
<1> HIDE DEF D
<1>9. L - 1 \in D
  BY <1>8, Induction
<1> USE DEF D, P
<1>10. c[L] = g[L]
  <2>1. P(L - 1) /\ L - 1 + 1 = L
    BY <1>9
  <2> QED BY <2>1
<1> QED BY <1>1, <1>10

-----------------------------------------------------------------------------
(* The first n pieces of s, which have End(s, n) elements. *)
Taken(s, n) == [i \in 1..n |-> s[i]]

End(s, n) == Len(FlattenSeq(Taken(s, n)))

Joins(S, s, L, g) ==
  /\ \A i \in 1..L : s[i] \in Seq(S)
  /\ g \in [0..L -> Seq(S)]
  /\ Upto(s, L, g)

LEMMA EndIs ==
  ASSUME NEW S, NEW L \in Nat, NEW s, NEW g, Joins(S, s, L, g)
  PROVE  \A n \in 0..L : FlattenSeq(Taken(s, n)) = g[n] /\ End(s, n) = Len(g[n])
<1> TAKE n \in 0..L
<1> USE DEF Joins
<1> DEFINE t == Taken(s, n)
<1>1. Len(t) = n /\ t \in Seq(Seq(S)) /\ \A i \in 1..n : t[i] = s[i]
  BY DEF Taken
<1>2. Upto(t, n, g)
  <2>1. \A i \in 1..n : i \in 1..L
    OBVIOUS
  <2> QED BY <1>1, <2>1 DEF Upto
<1>3. CASE n = 0
  <2>1. t = <<>>
    BY <1>3 DEF Taken
  <2>2. FlattenSeq(<<>>) = <<>>
    BY EmptySeq DEF FlattenSeq
  <2>3. g[0] = <<>>
    BY DEF Upto
  <2>4. FlattenSeq(t) = g[n]
    BY <1>3, <2>1, <2>2, <2>3
  <2> QED BY <2>4 DEF End
<1>4. CASE n # 0
  <2>1. n \in Nat \ {0} /\ 1 \in 1..n /\ 1 \in 1..L
    BY <1>4
  <2>2. t[1] \in Seq(S)
    BY <1>1, <2>1
  <2> HIDE DEF t
  <2>3. Len(t) = n /\ n \in Nat \ {0} /\ Upto(t, n, g)
    BY <1>1, <1>2, <2>1
  <2>4. FlattenSeq(t) = g[n]
    BY <2>2, <2>3, FlattenIs
  <2> QED BY <2>4 DEF t, End
<1> QED BY <1>3, <1>4

LEMMA EndsExist ==
  ASSUME NEW S, NEW L \in Nat, NEW s, \A i \in 1..L : s[i] \in Seq(S)
  PROVE  \E g : /\ Joins(S, s, L, g)
               /\ \A n \in 0..L : FlattenSeq(Taken(s, n)) = g[n] /\ End(s, n) = Len(g[n])
<1>1. \E g : Joins(S, s, L, g)
  BY JoinsExist DEF Joins
<1>2. PICK g : Joins(S, s, L, g)
  BY <1>1
<1>3. \A n \in 0..L : FlattenSeq(Taken(s, n)) = g[n] /\ End(s, n) = Len(g[n])
  BY <1>2, EndIs
<1> QED BY <1>2, <1>3

(* Joined pieces: one after another, and nothing else. *)
LEMMA Pieces ==
  ASSUME NEW S, NEW s \in Seq(Seq(S))
  PROVE  /\ FlattenSeq(s) \in Seq(S)
         /\ Len(FlattenSeq(s)) = End(s, Len(s))
         /\ End(s, 0) = 0
         /\ \A n \in 0..Len(s) : End(s, n) \in Nat /\ End(s, n) <= Len(FlattenSeq(s))
         /\ \A n \in 1..Len(s) : /\ End(s, n) = End(s, n - 1) + Len(s[n])
                                 /\ \A i \in 1..Len(s[n]) :
                                      FlattenSeq(s)[End(s, n - 1) + i] = s[n][i]
         /\ \A p \in 1..Len(FlattenSeq(s)) : \E n \in 1..Len(s) :
              End(s, n - 1) < p /\ p <= End(s, n)
<1>1. PICK L \in Nat : L = Len(s)
  OBVIOUS
<1>2. L \in Nat /\ \A i \in 1..L : s[i] \in Seq(S) /\ Len(s[i]) \in Nat
  BY <1>1
<1>3. s = Taken(s, L)
  BY <1>1 DEF Taken
<1>4. PICK g : /\ Joins(S, s, L, g)
               /\ \A n \in 0..L : FlattenSeq(Taken(s, n)) = g[n] /\ End(s, n) = Len(g[n])
  BY <1>1, <1>2, EndsExist
<1>5. \A n \in 0..L : FlattenSeq(Taken(s, n)) = g[n] /\ End(s, n) = Len(g[n])
  BY <1>4
<1>6. g \in [0..L -> Seq(S)] /\ Upto(s, L, g)
  BY <1>4 DEF Joins
<1>7. L \in 0..L /\ 0 \in 0..L
  BY <1>2
<1>8. FlattenSeq(s) = g[L]
  BY <1>3, <1>5, <1>7
<1>9. \A n \in 0..L : g[n] \in Seq(S) /\ Len(g[n]) \in Nat
  <2>1. \A n \in 0..L : g[n] \in Seq(S)
    BY <1>6
  <2>2. \A q \in Seq(S) : Len(q) \in Nat
    OBVIOUS
  <2> QED BY <2>1, <2>2
<1>10. \A n \in 1..L : n \in 0..L /\ n - 1 \in 0..L
  BY <1>2
<1>11. ASSUME NEW n \in 1..L
      PROVE  /\ Len(g[n]) = Len(g[n - 1]) + Len(s[n])
             /\ \A i \in 1..Len(g[n - 1]) : g[n][i] = g[n - 1][i]
             /\ \A i \in 1..Len(s[n]) : g[n][Len(g[n - 1]) + i] = s[n][i]
  <2> DEFINE a == g[n - 1]
             b == s[n]
  <2>1. a \in Seq(S) /\ b \in Seq(S) /\ Len(a) \in Nat /\ Len(b) \in Nat
    BY <1>2, <1>9, <1>10
  <2>2. g[n] = a \o b
    BY <1>6 DEF Upto
  <2> HIDE DEF a, b
  <2>3. Len(a \o b) = Len(a) + Len(b)
    BY <2>1, ConcatProperties
  <2>4. \A i \in 1..Len(a) + Len(b) :
          (a \o b)[i] = IF i <= Len(a) THEN a[i] ELSE b[i - Len(a)]
    BY <2>1, ConcatProperties
  <2> DEFINE la == Len(a)
             lb == Len(b)
             ab == a \o b
  <2>5. la \in Nat /\ lb \in Nat /\ Len(ab) = la + lb
    BY <2>1, <2>3
  <2>6. \A i \in 1..la + lb : ab[i] = IF i <= la THEN a[i] ELSE b[i - la]
    BY <2>4
  <2>7. g[n] = ab /\ la = Len(a) /\ lb = Len(b)
    BY <2>2
  <2> HIDE DEF la, lb, ab
  <2>8. \A i \in 1..la : ab[i] = a[i]
    BY <2>5, <2>6
  <2>9. \A i \in 1..lb : ab[la + i] = b[i]
    <3>1. ASSUME NEW i \in 1..lb PROVE ab[la + i] = b[i]
      <4> DEFINE j == la + i
      <4>1. j \in 1..la + lb /\ ~(j <= la) /\ j - la = i
        BY <2>5
      <4> HIDE DEF j
      <4>2. ab[j] = b[j - la]
        BY <4>1, <2>6
      <4>3. ab[j] = b[i]
        BY <4>1, <4>2
      <4> QED BY <4>3 DEF j
    <3> QED BY <3>1
  <2>10. /\ Len(g[n]) = Len(a) + Len(b)
         /\ \A i \in 1..Len(a) : g[n][i] = a[i]
         /\ \A i \in 1..Len(b) : g[n][Len(a) + i] = b[i]
    BY <2>5, <2>7, <2>8, <2>9
  <2> QED BY <2>10 DEF a, b
<1> DEFINE e(n) == Len(g[n])
           Before(n) == \A m \in 0..n : /\ e(m) <= e(n)
                                        /\ \A i \in 1..e(m) : g[n][i] = g[m][i]
           Covered(n) == \A p \in 1..e(n) : \E m \in 1..n : e(m - 1) < p /\ p <= e(m)
           P(n) == n <= L => Before(n) /\ Covered(n)
           I == {n \in Nat : P(n)}
<1>12. P(0)
  <2>1. g[0] = <<>> /\ Len(<<>>) = 0
    BY <1>6, EmptySeq DEF Upto
  <2>2. e(0) = 0
    BY <2>1
  <2>3. \A m \in 0..0 : m = 0
    OBVIOUS
  <2>4. Before(0)
    BY <2>2, <2>3
  <2>5. Covered(0)
    BY <2>2
  <2> QED BY <2>4, <2>5
<1>13. ASSUME NEW n \in Nat, P(n) PROVE P(n + 1)
  <2> SUFFICES ASSUME n + 1 <= L PROVE Before(n + 1) /\ Covered(n + 1)
    OBVIOUS
  <2> DEFINE k == n + 1
  <2>1. k \in 1..L /\ k - 1 = n /\ n \in 0..L /\ n <= L /\ k \in 0..L
    BY <1>2
  <2>2. /\ e(k) = e(n) + Len(s[k])
        /\ \A i \in 1..e(n) : g[k][i] = g[n][i]
    <3>1. /\ Len(g[k]) = Len(g[k - 1]) + Len(s[k])
          /\ \A i \in 1..Len(g[k - 1]) : g[k][i] = g[k - 1][i]
      <4> HIDE DEF k
      <4> QED BY <1>11, <2>1
    <3>2. k - 1 = n
      BY <2>1
    <3> HIDE DEF k
    <3> QED BY <3>1, <3>2
  <2>3. e(n) \in Nat /\ e(k) \in Nat /\ Len(s[k]) \in Nat
    BY <1>2, <1>9, <2>1
  <2>4. e(n) <= e(k)
    <3> HIDE DEF e
    <3> QED BY <2>2, <2>3
  <2>5. Before(n) /\ Covered(n)
    BY <1>13, <2>1
  <2>6. \A m \in 0..k : m = k \/ m \in 0..n
    OBVIOUS
  <2>7. \A m \in 0..n : m \in 0..L /\ e(m) \in Nat
    <3>1. \A m \in 0..n : m \in 0..L
      BY <2>1, <1>2
    <3> QED BY <3>1, <1>9
  <2> HIDE DEF k, e, I
  <2>8. Before(k)
    <3>1. ASSUME NEW m \in 0..k
          PROVE  e(m) <= e(k) /\ \A i \in 1..e(m) : g[k][i] = g[m][i]
      <4>1. CASE m = k
        BY <4>1, <2>3
      <4>2. CASE m \in 0..n
        <5>1. e(m) <= e(n) /\ \A i \in 1..e(m) : g[n][i] = g[m][i]
          BY <4>2, <2>5
        <5>2. \A i \in 1..e(m) : i \in 1..e(n)
          BY <4>2, <5>1, <2>3, <2>7
        <5>3. e(m) <= e(k)
          BY <4>2, <5>1, <2>3, <2>4, <2>7
        <5> QED BY <5>1, <5>2, <5>3, <2>2
      <4> QED BY <4>1, <4>2, <2>6
    <3> QED BY <3>1
  <2>9. Covered(k)
    <3>1. ASSUME NEW p \in 1..e(k)
          PROVE  \E m \in 1..k : e(m - 1) < p /\ p <= e(m)
      <4>1. CASE p <= e(n)
        <5>1. p \in 1..e(n)
          BY <4>1, <2>3
        <5>2. PICK m \in 1..n : e(m - 1) < p /\ p <= e(m)
          BY <5>1, <2>5
        <5>3. m \in 1..k
          BY DEF k
        <5> QED BY <5>2, <5>3
      <4>2. CASE ~(p <= e(n))
        <5>1. e(k - 1) < p
          BY <4>2, <2>1, <2>3
        <5>2. k \in 1..k
          BY <2>1
        <5> QED BY <5>1, <5>2
      <4> QED BY <4>1, <4>2
    <3> QED BY <3>1
  <2> QED BY <2>8, <2>9 DEF k
<1> HIDE DEF P
<1>14. 0 \in I /\ \A n \in Nat : n \in I => n + 1 \in I
  BY <1>12, <1>13
<1> HIDE DEF I
<1>15. L \in I
  BY <1>2, <1>14, Induction
<1> USE DEF I, P
<1>16. Before(L) /\ Covered(L)
  BY <1>15
<1> HIDE DEF I, P
<1>17. \A n \in 0..L : End(s, n) = e(n) /\ e(n) \in Nat
  BY <1>5, <1>9
<1>18. FlattenSeq(s) \in Seq(S) /\ Len(FlattenSeq(s)) = End(s, L)
  BY <1>7, <1>8, <1>9, <1>17
<1>19. End(s, 0) = 0
  <2>1. g[0] = <<>> /\ Len(<<>>) = 0
    BY <1>6, EmptySeq DEF Upto
  <2> QED BY <2>1, <1>7, <1>17
<1>20. \A n \in 0..L : End(s, n) \in Nat /\ End(s, n) <= Len(FlattenSeq(s))
  <2> HIDE DEF e, Before, Covered
  <2>1. \A n \in 0..L : e(n) <= e(L)
    BY <1>16 DEF Before
  <2> QED BY <2>1, <1>7, <1>17, <1>18
<1>21. ASSUME NEW n \in 1..L
       PROVE  /\ End(s, n) = End(s, n - 1) + Len(s[n])
              /\ \A i \in 1..Len(s[n]) : FlattenSeq(s)[End(s, n - 1) + i] = s[n][i]
  <2>1. End(s, n) = e(n) /\ End(s, n - 1) = e(n - 1) /\ e(n) \in Nat /\ e(n - 1) \in Nat
    BY <1>10, <1>17
  <2>2. e(n) = e(n - 1) + Len(s[n]) /\ Len(s[n]) \in Nat
    BY <1>11, <1>2
  <2>3. \A i \in 1..e(n) : FlattenSeq(s)[i] = g[n][i]
    BY <1>8, <1>10, <1>16
  <2>4. \A i \in 1..Len(s[n]) : g[n][e(n - 1) + i] = s[n][i]
    BY <1>11
  <2> DEFINE l == Len(s[n])
  <2>5. l \in Nat /\ l = Len(s[n])
    BY <2>2
  <2> HIDE DEF e, l
  <2>6. \A i \in 1..l : e(n - 1) + i \in 1..e(n)
    <3>1. \A a, b, c \in Nat : c = a + b => \A i \in 1..b : a + i \in 1..c
      OBVIOUS
    <3> HIDE DEF Before, Covered
    <3> QED BY <2>1, <2>2, <2>5, <3>1
  <2>7. \A i \in 1..Len(s[n]) : FlattenSeq(s)[e(n - 1) + i] = s[n][i]
    BY <2>3, <2>4, <2>5, <2>6
  <2> QED BY <2>1, <2>2, <2>7
<1>22. \A p \in 1..Len(FlattenSeq(s)) : \E n \in 1..L : End(s, n - 1) < p /\ p <= End(s, n)
  <2>1. \A p \in 1..e(L) : \E n \in 1..L : e(n - 1) < p /\ p <= e(n)
    BY <1>16
  <2> HIDE DEF e
  <2> QED BY <2>1, <1>7, <1>10, <1>17, <1>18
<1> QED BY <1>1, <1>18, <1>19, <1>20, <1>21, <1>22

-----------------------------------------------------------------------------
(* Tokens, and the commands as tokens. *)

Arg  == Seq(Char) \ {<<>>}
Args == Seq(Arg) \ {<<>>}

LEMMA TokenIs ==
  /\ {CR, LF, Blank, Quote} \subseteq Token
  /\ \A n \in Int : Star(n) \in Token /\ Dollar(n) \in Token
  /\ \A t \in Token : /\ t[1] = "cr" <=> t = CR
                      /\ t[1] = "lf" <=> t = LF
                      /\ t[1] = "blank" <=> t = Blank
                      /\ t[1] = "quote" <=> t = Quote
                      /\ t[1] = "star" => t = Star(t[2]) /\ t[2] \in Int
                      /\ t[1] = "dollar" => t[2] \in Int
BY DEF Token, CR, LF, Blank, Quote, Star, Dollar

LEMMA LetterIs ==
  ASSUME NEW s \in Seq(Char)
  PROVE  /\ Letter(s) \in Seq(Token) /\ Len(Letter(s)) = Len(s)
         /\ \A i \in 1..Len(s) : Letter(s)[i][1] = "char"
<1>1. PICK n \in Nat : n = Len(s)
  OBVIOUS
<1>2. DOMAIN s = 1..n /\ \A i \in 1..n : s[i] \in Char
  BY <1>1
<1>3. \A i \in 1..n : <<"char", s[i]>> \in Token
  BY <1>2 DEF Token
<1>4. Letter(s) = [i \in 1..n |-> <<"char", s[i]>>]
  BY <1>2 DEF Letter
<1>5. Letter(s) \in Seq(Token) /\ Len(Letter(s)) = n
  BY <1>3, <1>4
<1>6. \A i \in 1..n : Letter(s)[i] = <<"char", s[i]>>
  BY <1>4
<1> QED BY <1>1, <1>5, <1>6

(* Two sequences joined. *)
Cat(a, b, ab) == ab = a \o b

LEMMA Concat ==
  ASSUME NEW S, NEW a \in Seq(S), NEW b \in Seq(S), NEW ab, Cat(a, b, ab)
  PROVE  /\ ab \in Seq(S) /\ Len(ab) = Len(a) + Len(b)
         /\ Len(a) \in Nat /\ Len(b) \in Nat
         /\ \A i \in 1..Len(a) : ab[i] = a[i]
         /\ \A i \in 1..Len(b) : ab[Len(a) + i] = b[i]
<1>1. Len(a) \in Nat /\ Len(b) \in Nat /\ a \o b \in Seq(S)
  OBVIOUS
<1>2. Len(a \o b) = Len(a) + Len(b)
  BY ConcatProperties
<1>3. \A i \in 1..Len(a) + Len(b) :
        (a \o b)[i] = IF i <= Len(a) THEN a[i] ELSE b[i - Len(a)]
  BY ConcatProperties
<1> DEFINE la == Len(a)
           lb == Len(b)
<1>4. la \in Nat /\ lb \in Nat
  BY <1>1
<1>5. \A i \in 1..la + lb : ab[i] = IF i <= la THEN a[i] ELSE b[i - la]
  BY <1>3 DEF Cat
<1>6. ab \in Seq(S) /\ Len(ab) = la + lb
  BY <1>1, <1>2 DEF Cat
<1> HIDE DEF la, lb
<1>7. \A i \in 1..la : ab[i] = a[i]
  BY <1>4, <1>5
<1>8. ASSUME NEW i \in 1..lb PROVE ab[la + i] = b[i]
  <2> DEFINE j == la + i
  <2>1. j \in 1..la + lb /\ ~(j <= la) /\ j - la = i
    BY <1>4
  <2> HIDE DEF j
  <2>2. ab[j] = b[i]
    BY <2>1, <1>5
  <2> QED BY <2>2 DEF j
<1> QED BY <1>4, <1>6, <1>7, <1>8 DEF la, lb

LEMMA BulkIs ==
  ASSUME NEW s \in Seq(Char)
  PROVE  /\ Bulk(s) \in Seq(Token) /\ Len(Bulk(s)) = Len(s) + 5
         /\ Bulk(s)[1] = Dollar(Len(s)) /\ Bulk(s)[2] = CR
         /\ \A i \in 1..Len(s) : Bulk(s)[3 + i] = Letter(s)[i]
<1>1. PICK n \in Nat : n = Len(s)
  OBVIOUS
<1> DEFINE a == <<Dollar(n), CR, LF>>
           b == Letter(s)
           c == <<CR, LF>>
<1>2. a \in Seq(Token) /\ c \in Seq(Token) /\ Len(a) = 3 /\ Len(c) = 2
  BY TokenIs
<1>3. b \in Seq(Token) /\ Len(b) = n
  BY <1>1, LetterIs
<1>4. a[1] = Dollar(n) /\ a[2] = CR
  OBVIOUS
<1>5. Bulk(s) = (a \o b) \o c
  <2>1. Bulk(s) = a \o b \o c
    BY <1>1 DEF Bulk
  <2> QED BY <2>1
<1> HIDE DEF a, b, c
<1> DEFINE d == a \o b
           e == d \o c
<1>6. Cat(a, b, d) /\ Cat(d, c, e)
  BY DEF Cat
<1> HIDE DEF d, e
<1>7. a \in Seq(Token) /\ b \in Seq(Token) /\ c \in Seq(Token)
  BY <1>2, <1>3
<1>8. /\ d \in Seq(Token) /\ Len(d) = Len(a) + Len(b)
      /\ \A i \in 1..Len(a) : d[i] = a[i]
      /\ \A i \in 1..Len(b) : d[Len(a) + i] = b[i]
  BY ONLY <1>7, <1>6, Concat
<1>9. /\ Len(d) = 3 + n
      /\ \A i \in 1..3 : d[i] = a[i]
      /\ \A i \in 1..n : d[3 + i] = b[i]
  BY <1>2, <1>3, <1>8
<1>10. d \in Seq(Token)
  BY <1>8
<1>11. /\ e \in Seq(Token) /\ Len(e) = Len(d) + Len(c)
       /\ \A i \in 1..Len(d) : e[i] = d[i]
  BY ONLY <1>7, <1>10, <1>6, Concat
<1>12. e \in Seq(Token) /\ Len(e) = n + 5 /\ \A i \in 1..3 + n : e[i] = d[i]
  BY <1>2, <1>9, <1>11
<1>13. e[1] = Dollar(n) /\ e[2] = CR
  BY <1>4, <1>9, <1>12
<1>14. ASSUME NEW i \in 1..n PROVE e[3 + i] = b[i]
  <2>1. 3 + i \in 1..3 + n
    OBVIOUS
  <2> QED BY <2>1, <1>9, <1>12
<1>15. Bulk(s) = e
  BY <1>5 DEF d, e
<1> QED BY <1>1, <1>12, <1>13, <1>14, <1>15 DEF b

Bulks(k)     == [i \in DOMAIN k |-> Bulk(k[i])]
Offset(k, n) == 3 + End(Bulks(k), n)

(* The bytes of a multibulk command: the header, then the arguments. *)
LEMMA BulksIs ==
  ASSUME NEW k \in Args
  PROVE  /\ Len(k) \in Nat \ {0} /\ DOMAIN k = 1..Len(k)
         /\ \A n \in 1..Len(k) : k[n] \in Arg /\ k[n] \in Seq(Char) /\ Len(k[n]) \in Nat \ {0}
         /\ Bulks(k) \in Seq(Seq(Token)) /\ Len(Bulks(k)) = Len(k)
         /\ \A n \in 1..Len(k) : Bulks(k)[n] = Bulk(k[n])
<1>1. PICK L \in Nat : L = Len(k)
  BY DEF Args
<1>2. DOMAIN k = 1..L /\ \A n \in 1..L : k[n] \in Arg
  BY <1>1 DEF Args
<1>3. L # 0
  <2>1. L = 0 => k = <<>>
    BY <1>1, EmptySeq DEF Args
  <2> QED BY <2>1 DEF Args
<1>4. \A s \in Arg : s \in Seq(Char) /\ Len(s) \in Nat \ {0}
  <2> SUFFICES ASSUME NEW s \in Arg PROVE s \in Seq(Char) /\ Len(s) \in Nat \ {0}
    OBVIOUS
  <2>1. s \in Seq(Char) /\ s # <<>>
    BY DEF Arg
  <2>2. Len(s) = 0 => s = <<>>
    BY <2>1, EmptySeq
  <2> QED BY <2>1, <2>2
<1>5. \A n \in 1..L : Bulk(k[n]) \in Seq(Token)
  BY <1>2, <1>4, BulkIs
<1>6. Bulks(k) = [n \in 1..L |-> Bulk(k[n])]
  BY <1>2 DEF Bulks
<1>7. Bulks(k) \in Seq(Seq(Token)) /\ Len(Bulks(k)) = L
  BY <1>5, <1>6
<1>8. \A n \in 1..L : Bulks(k)[n] = Bulk(k[n])
  BY <1>6
<1> QED BY <1>1, <1>2, <1>3, <1>4, <1>7, <1>8

LEMMA MultiIs ==
  ASSUME NEW k \in Args
  PROVE  /\ Multi(k) \in Seq(Token) /\ Len(Multi(k)) \in Nat /\ Len(Multi(k)) >= 3
         /\ Multi(k)[1] = Star(Len(k)) /\ Multi(k)[2] = CR
         /\ Offset(k, 0) = 3 /\ Offset(k, Len(k)) = Len(Multi(k))
         /\ \A n \in 0..Len(k) : Offset(k, n) \in Nat /\ Offset(k, n) <= Len(Multi(k))
<1>1. PICK L \in Nat : L = Len(k)
  BY BulksIs
<1> DEFINE s == Bulks(k)
           f == FlattenSeq(s)
           h == <<Star(L), CR, LF>>
           m == h \o f
<1>2. s \in Seq(Seq(Token)) /\ Len(s) = L
  BY <1>1, BulksIs
<1>3. Cat(h, f, m) /\ m = Multi(k) /\ h[1] = Star(L) /\ h[2] = CR
  BY <1>1 DEF Cat, Multi, Bulks
<1>4. h \in Seq(Token) /\ Len(h) = 3
  BY TokenIs
<1> HIDE DEF s, f, h, m
<1>5. /\ f \in Seq(Token) /\ End(s, L) = Len(f) /\ End(s, 0) = 0
      /\ \A n \in 0..L : End(s, n) \in Nat /\ End(s, n) <= Len(f)
  BY <1>2, Pieces DEF f
<1>6. h \in Seq(Token) /\ f \in Seq(Token)
  BY <1>4, <1>5
<1>7. /\ m \in Seq(Token) /\ Len(m) = Len(h) + Len(f)
      /\ \A i \in 1..Len(h) : m[i] = h[i]
  BY ONLY <1>3, <1>6, Concat
<1>8. L \in 0..L /\ End(s, L) \in Nat
  BY <1>5
<1>9. Len(m) = 3 + End(s, L) /\ m[1] = Star(L) /\ m[2] = CR
  BY <1>3, <1>4, <1>5, <1>7
<1>10. \A n \in 0..L : Offset(k, n) = 3 + End(s, n)
  BY DEF Offset, s
<1>11. Len(m) = Offset(k, L) /\ Offset(k, 0) = 3
  BY <1>5, <1>8, <1>9, <1>10
<1>12. Len(m) \in Nat /\ Len(m) >= 3
  BY <1>8, <1>9
<1>13. \A n \in 0..L : Offset(k, n) \in Nat /\ Offset(k, n) <= Len(m)
  <2>1. \A n \in 0..L : End(s, n) \in Nat /\ End(s, n) <= End(s, L)
    BY <1>5
  <2> QED BY <2>1, <1>8, <1>9, <1>10
<1> QED BY <1>1, <1>3, <1>7, <1>9, <1>11, <1>12, <1>13

LEMMA MultiAt ==
  ASSUME NEW k \in Args, NEW n \in 1..Len(k)
  PROVE  LET o == Offset(k, n - 1) IN
         /\ Offset(k, n) = o + Len(k[n]) + 5
         /\ Multi(k)[o + 1] = Dollar(Len(k[n])) /\ Multi(k)[o + 2] = CR
         /\ \A i \in 1..Len(k[n]) : Multi(k)[o + 3 + i] = Letter(k[n])[i]
<1>1. PICK L \in Nat : L = Len(k)
  BY BulksIs
<1> DEFINE s == Bulks(k)
           f == FlattenSeq(s)
           h == <<Star(L), CR, LF>>
           m == h \o f
           b == Bulk(k[n])
           E == End(s, n - 1)
<1>2. s \in Seq(Seq(Token)) /\ Len(s) = L /\ s[n] = b /\ k[n] \in Seq(Char) /\ Len(k[n]) \in Nat
  BY <1>1, BulksIs
<1>3. Cat(h, f, m) /\ m = Multi(k)
  BY <1>1 DEF Cat, Multi, Bulks
<1>4. h \in Seq(Token) /\ Len(h) = 3
  BY TokenIs
<1>5. n \in 1..L /\ n - 1 \in 0..L
  BY <1>1
<1>6. /\ Len(b) = Len(k[n]) + 5
      /\ b[1] = Dollar(Len(k[n])) /\ b[2] = CR
      /\ \A i \in 1..Len(k[n]) : b[3 + i] = Letter(k[n])[i]
  BY <1>2, BulkIs
<1> HIDE DEF s, f, h, m, b
<1>7. /\ f \in Seq(Token) /\ E \in Nat /\ End(s, n) <= Len(f) /\ End(s, n) \in Nat
      /\ End(s, n) = E + Len(s[n])
      /\ \A i \in 1..Len(s[n]) : f[E + i] = s[n][i]
  <2>1. /\ FlattenSeq(s) \in Seq(Token)
        /\ \A j \in 0..Len(s) : End(s, j) \in Nat /\ End(s, j) <= Len(FlattenSeq(s))
        /\ \A j \in 1..Len(s) : /\ End(s, j) = End(s, j - 1) + Len(s[j])
                                /\ \A i \in 1..Len(s[j]) :
                                     FlattenSeq(s)[End(s, j - 1) + i] = s[j][i]
    BY <1>2, Pieces
  <2>2. n \in 0..Len(s) /\ n - 1 \in 0..Len(s) /\ n \in 1..Len(s)
    BY <1>2, <1>5
  <2> DEFINE p == n - 1
  <2>3. End(s, n) = End(s, p) + Len(s[n]) /\ \A i \in 1..Len(s[n]) :
                                     FlattenSeq(s)[End(s, p) + i] = s[n][i]
    BY <2>1, <2>2
  <2>4. p \in 0..Len(s)
    BY <2>2
  <2> HIDE DEF p
  <2>5. End(s, p) \in Nat
    BY <2>1, <2>4
  <2> QED BY <2>1, <2>2, <2>3, <2>5 DEF f, p
<1>8. Offset(k, n) = 3 + End(s, n) /\ Offset(k, n - 1) = 3 + E
  BY DEF Offset, s
<1> HIDE DEF E
<1>9. h \in Seq(Token) /\ f \in Seq(Token)
  BY <1>4, <1>7
<1>10. /\ Len(f) \in Nat
       /\ \A i \in 1..Len(f) : m[Len(h) + i] = f[i]
  BY ONLY <1>3, <1>9, Concat
<1>11. \A i \in 1..Len(f) : m[3 + i] = f[i]
  BY <1>4, <1>10
<1> DEFINE l == Len(k[n])
           e == End(s, n)
           lf == Len(f)
<1>12. /\ l \in Nat /\ e = E + l + 5 /\ e <= lf /\ lf \in Nat /\ E \in Nat /\ l = Len(k[n])
       /\ \A i \in 1..l + 5 : f[E + i] = b[i]
       /\ \A i \in 1..lf : m[3 + i] = f[i]
       /\ \A i \in 1..l : b[3 + i] = Letter(k[n])[i]
  <2>1. l \in Nat /\ lf \in Nat /\ E \in Nat /\ e <= lf /\ l = Len(k[n])
    BY <1>2, <1>7, <1>10
  <2>2. Len(s[n]) = l + 5
    BY <1>2, <1>6
  <2>3. e = E + l + 5
    BY <1>7, <2>1, <2>2
  <2>4. \A i \in 1..l + 5 : f[E + i] = b[i]
    BY <1>2, <1>7, <2>2
  <2> QED BY <2>1, <2>3, <2>4, <1>6, <1>11
<1>13. Offset(k, n) = 3 + e
  BY <1>8
<1> HIDE DEF l, e, lf
<1>14. \A i \in 1..l + 5 : m[3 + E + i] = b[i]
  <2> SUFFICES ASSUME NEW i \in 1..l + 5 PROVE m[3 + E + i] = b[i]
    OBVIOUS
  <2> DEFINE j == E + i
  <2>1. j \in 1..lf /\ 3 + E + i = 3 + j
    BY <1>12
  <2>2. f[j] = b[i]
    BY <1>12
  <2> HIDE DEF j
  <2>3. m[3 + j] = b[i]
    BY <2>1, <2>2, <1>12
  <2> QED BY <2>1, <2>3
<1>15. \A i \in 1..l : m[3 + E + 3 + i] = Letter(k[n])[i]
  <2> SUFFICES ASSUME NEW i \in 1..l PROVE m[3 + E + 3 + i] = Letter(k[n])[i]
    OBVIOUS
  <2>1. 3 + i \in 1..l + 5 /\ 3 + E + 3 + i = 3 + E + (3 + i)
    BY <1>12
  <2> QED BY <2>1, <1>12, <1>14
<1>16. m[3 + E + 1] = Dollar(l) /\ m[3 + E + 2] = CR
  <2>1. 1 \in 1..l + 5 /\ 2 \in 1..l + 5
    BY <1>12
  <2> QED BY <2>1, <1>6, <1>12, <1>14
<1>17. Offset(k, n - 1) = 3 + E /\ Offset(k, n) = 3 + E + l + 5
  <2>1. e = E + l + 5 /\ E \in Nat /\ l \in Nat
    BY <1>12
  <2>2. 3 + e = 3 + E + l + 5
    BY ONLY <2>1
  <2> QED BY <1>8, <1>13, <2>2
<1>18. /\ Offset(k, n) = Offset(k, n - 1) + Len(k[n]) + 5
       /\ Multi(k)[Offset(k, n - 1) + 1] = Dollar(Len(k[n]))
       /\ Multi(k)[Offset(k, n - 1) + 2] = CR
       /\ \A i \in 1..Len(k[n]) : Multi(k)[Offset(k, n - 1) + 3 + i] = Letter(k[n])[i]
  BY <1>3, <1>12, <1>15, <1>16, <1>17
<1> QED BY <1>18

-----------------------------------------------------------------------------
(* The words of an inline command: word n is at first[n]..last[n].         *)
Spaced(k) ==
  [i \in DOMAIN k |-> IF i = 1 THEN Letter(k[i]) ELSE <<Blank>> \o Letter(k[i])]

InWord(line, k, n, first, last) ==
  /\ first[n] \in Nat \ {0} /\ last[n] \in Nat
  /\ last[n] = first[n] + Len(k[n]) - 1
  /\ \A i \in 1..Len(k[n]) : line[first[n] - 1 + i] = Letter(k[n])[i]
  /\ IF n = 1 THEN first[n] = 1
     ELSE first[n] = last[n - 1] + 2 /\ line[first[n] - 1] = Blank

WordsAt(line, k, L, first, last) ==
  /\ L \in Nat \ {0} /\ L = Len(k)
  /\ line \in Seq(Token) /\ last[L] = Len(line)
  /\ \A n \in 1..L : InWord(line, k, n, first, last)
  /\ \A p \in 1..Len(line) : \E n \in 1..L :
       IF n = 1 THEN p <= last[n] ELSE last[n - 1] < p /\ p <= last[n]

LEMMA SpacedIs ==
  ASSUME NEW k \in Args
  PROVE  /\ Spaced(k) \in Seq(Seq(Token)) /\ Len(Spaced(k)) = Len(k)
         /\ \A n \in 1..Len(k) :
              IF n = 1 THEN Spaced(k)[n] = Letter(k[n])
              ELSE Spaced(k)[n] = <<Blank>> \o Letter(k[n])
<1>1. PICK L \in Nat : L = Len(k)
  BY BulksIs
<1>2. DOMAIN k = 1..L /\ \A n \in 1..L : k[n] \in Seq(Char)
  BY <1>1, BulksIs
<1> DEFINE w(n) == IF n = 1 THEN Letter(k[n]) ELSE <<Blank>> \o Letter(k[n])
<1>3. \A n \in 1..L : w(n) \in Seq(Token)
  <2>1. \A n \in 1..L : Letter(k[n]) \in Seq(Token)
    BY <1>2, LetterIs
  <2>2. <<Blank>> \in Seq(Token)
    BY TokenIs
  <2> QED BY <2>1, <2>2
<1>4. Spaced(k) = [n \in 1..L |-> w(n)]
  BY <1>2 DEF Spaced
<1> HIDE DEF w
<1>5. Spaced(k) \in Seq(Seq(Token)) /\ Len(Spaced(k)) = L
  BY <1>3, <1>4
<1>6. \A n \in 1..L : Spaced(k)[n] = w(n)
  BY <1>4
<1> QED BY <1>1, <1>5, <1>6 DEF w

LEMMA WordsFound ==
  ASSUME NEW k \in Args
  PROVE  \E L, first, last : WordsAt(Words(k), k, L, first, last)
<1>1. PICK L \in Nat : L = Len(k)
  BY BulksIs
<1>2. L # 0 /\ \A n \in 1..L : k[n] \in Seq(Char) /\ Len(k[n]) \in Nat \ {0}
  BY <1>1, BulksIs
<1> DEFINE s == Spaced(k)
           W == Words(k)
           first == [n \in 1..L |-> IF n = 1 THEN 1 ELSE End(s, n - 1) + 2]
           last == [n \in 1..L |-> End(s, n)]
<1>3. W = FlattenSeq(s)
  BY DEF Words, Spaced
<1>4. /\ s \in Seq(Seq(Token)) /\ Len(s) = L
      /\ \A n \in 1..L : IF n = 1 THEN s[n] = Letter(k[n])
                         ELSE s[n] = <<Blank>> \o Letter(k[n])
  BY <1>1, SpacedIs
<1> HIDE DEF s, W
<1>5. /\ W \in Seq(Token) /\ Len(W) = End(s, L) /\ End(s, 0) = 0
      /\ \A n \in 0..L : End(s, n) \in Nat
      /\ \A n \in 1..L : /\ End(s, n) = End(s, n - 1) + Len(s[n])
                         /\ \A i \in 1..Len(s[n]) : W[End(s, n - 1) + i] = s[n][i]
      /\ \A p \in 1..Len(W) : \E n \in 1..L : End(s, n - 1) < p /\ p <= End(s, n)
  <2> HIDE DEF first, last
  <2>1. /\ FlattenSeq(s) \in Seq(Token) /\ Len(FlattenSeq(s)) = End(s, Len(s)) /\ End(s, 0) = 0
        /\ \A n \in 0..Len(s) : End(s, n) \in Nat
        /\ \A n \in 1..Len(s) : /\ End(s, n) = End(s, n - 1) + Len(s[n])
                                /\ \A i \in 1..Len(s[n]) :
                                     FlattenSeq(s)[End(s, n - 1) + i] = s[n][i]
        /\ \A p \in 1..Len(FlattenSeq(s)) : \E n \in 1..Len(s) :
             End(s, n - 1) < p /\ p <= End(s, n)
    BY <1>4, Pieces, ZenonT(30)
  <2>2. Len(s) = L /\ FlattenSeq(s) = W
    BY <1>3, <1>4
  <2> QED BY <2>1, <2>2

<1>6. ASSUME NEW n \in 1..L PROVE InWord(W, k, n, first, last)
  <2> DEFINE l == Len(k[n])
             e == End(s, n - 1)
             b == Letter(k[n])
  <2>1. l \in Nat \ {0} /\ b \in Seq(Token) /\ Len(b) = l /\ k[n] \in Seq(Char)
    BY <1>2, LetterIs
  <2>2. n \in 0..L /\ n - 1 \in 0..L
    OBVIOUS
  <2>3. e \in Nat
    BY <1>5, <2>2
  <2>4. End(s, n) = e + Len(s[n]) /\ \A i \in 1..Len(s[n]) : W[e + i] = s[n][i]
    BY <1>5
  <2>5. CASE n = 1
    <3>1. e = 0 /\ s[n] = b
      BY <1>4, <1>5, <2>5
    <3>2. End(s, n) = l /\ \A i \in 1..l : W[i] = b[i]
      <4>1. Len(s[n]) = l
        BY <2>1, <3>1
      <4> HIDE DEF b, l
      <4> QED BY <2>1, <2>4, <3>1, <4>1
    <3>3. first[n] = 1 /\ last[n] = l
      BY <2>5, <3>2
    <3> HIDE DEF first, last, b, l
    <3>4. /\ first[n] \in Nat \ {0} /\ last[n] \in Nat
          /\ last[n] = first[n] + l - 1
      BY <2>1, <3>3
    <3>5. \A i \in 1..l : W[first[n] - 1 + i] = b[i]
      <4>1. \A i \in 1..l : first[n] - 1 + i = i
        BY <2>1, <3>3
      <4> QED BY <3>2, <4>1
    <3> QED BY <2>5, <3>3, <3>4, <3>5 DEF InWord, b, l
  <2>6. CASE n # 1
    <3> DEFINE d == s[n]
               h == <<Blank>>
    <3>1. Cat(h, b, d) /\ h \in Seq(Token) /\ b \in Seq(Token)
      BY <1>4, <2>1, <2>6, TokenIs DEF Cat
    <3>2. Len(h) = 1 /\ h[1] = Blank
      OBVIOUS
    <3> HIDE DEF d, h, b
    <3>3. /\ Len(d) = Len(h) + Len(b)
          /\ \A i \in 1..Len(h) : d[i] = h[i]
          /\ \A i \in 1..Len(b) : d[Len(h) + i] = b[i]
      BY ONLY <3>1, Concat
    <3> HIDE DEF l, e
    <3>4. Len(d) = 1 + l /\ d[1] = Blank /\ \A i \in 1..l : d[1 + i] = b[i]
      BY <2>1, <3>2, <3>3
    <3>5. End(s, n) = e + 1 + l /\ \A i \in 1..1 + l : W[e + i] = d[i]
      BY <2>1, <2>3, <2>4, <3>4 DEF d
    <3>6. \A i \in 1..l : W[e + 1 + i] = b[i]
      <4> SUFFICES ASSUME NEW i \in 1..l PROVE W[e + 1 + i] = b[i]
        OBVIOUS
      <4>1. 1 + i \in 1..1 + l /\ e + 1 + i = e + (1 + i)
        BY <2>1, <2>3
      <4> QED BY <4>1, <3>4, <3>5
    <3>7. W[e + 1] = Blank
      BY <2>1, <3>4, <3>5
    <3>8. first[n] = e + 2 /\ last[n] = e + 1 + l
      BY <2>6, <3>5 DEF e
    <3>9. last[n - 1] = e
      <4>1. n - 1 \in 1..L
        BY <2>6
      <4> QED BY <4>1 DEF e
    <3> HIDE DEF first, last
    <3>10. /\ first[n] \in Nat \ {0} /\ last[n] \in Nat
           /\ last[n] = first[n] + l - 1
           /\ first[n] - 1 = e + 1
      BY <2>1, <2>3, <3>8
    <3>11. \A i \in 1..l : W[first[n] - 1 + i] = b[i]
      BY <3>6, <3>10
    <3> QED BY <2>6, <3>7, <3>8, <3>9, <3>10, <3>11 DEF InWord, b, l
  <2> QED BY <2>5, <2>6
<1>7. last[L] = Len(W)
  BY <1>2, <1>5
<1>8. ASSUME NEW p \in 1..Len(W)
      PROVE  \E n \in 1..L : IF n = 1 THEN p <= last[n] ELSE last[n - 1] < p /\ p <= last[n]
  <2>1. PICK n \in 1..L : End(s, n - 1) < p /\ p <= End(s, n)
    BY <1>5
  <2>2. last[n] = End(s, n)
    OBVIOUS
  <2>3. n # 1 => n - 1 \in 1..L
    OBVIOUS
  <2>4. n # 1 => last[n - 1] = End(s, n - 1)
    BY <2>3
  <2> HIDE DEF last
  <2> QED BY <2>1, <2>2, <2>4
<1> HIDE DEF first, last
<1>9. WordsAt(W, k, L, first, last)
  BY <1>1, <1>2, <1>5, <1>6, <1>7, <1>8 DEF WordsAt
<1> QED BY <1>9 DEF W


-----------------------------------------------------------------------------
(* SplitArgs: the words of a line, by the rank of their first tokens. *)

LEMMA MinIs ==
  ASSUME NEW T \in SUBSET Nat, T # {}
  PROVE  Min(T) \in T /\ \A y \in T : Min(T) <= y
<1>1. \E x \in T : \A y \in T : x <= y
  BY Smallest
<1> QED BY <1>1 DEF Min

Upper(T, i) == {j \in T : j <= i}
Rank(T, i) == Cardinality(Upper(T, i))

LEMMA RankGrows ==
  ASSUME NEW T, IsFiniteSet(T), T \subseteq Nat, NEW i \in Nat
  PROVE  /\ Rank(T, i) \in Nat /\ Rank(T, i + 1) \in Nat
         /\ i + 1 \in T => Rank(T, i + 1) = Rank(T, i) + 1
         /\ i + 1 \notin T => Rank(T, i + 1) = Rank(T, i)
<1> DEFINE A == Upper(T, i)
           B == Upper(T, i + 1)
<1>1. A \subseteq T /\ B \subseteq T
  BY DEF Upper
<1>2. IsFiniteSet(A) /\ IsFiniteSet(B)
  BY <1>1, FS_Subset
<1>3. Cardinality(A) \in Nat /\ Cardinality(B) \in Nat
  BY <1>2, FS_CardinalityType
<1>4. \A j \in T : j \in Nat
  OBVIOUS
<1>5. \A j : (j \in A <=> j \in T /\ j <= i) /\ (j \in B <=> j \in T /\ j <= i + 1)
  BY DEF Upper
<1>6. \A j \in Nat : j <= i + 1 <=> j <= i \/ j = i + 1
  OBVIOUS
<1>7. CASE i + 1 \in T
  <2> HIDE DEF A, B
  <2>1. ~(i + 1 <= i) /\ i + 1 <= i + 1
    OBVIOUS
  <2>2. \A j : j \in B <=> j \in A \/ j = i + 1
    BY <1>4, <1>5, <1>6, <1>7
  <2>3. B = A \cup {i + 1} /\ ~(i + 1 \in A)
    BY <2>1, <2>2, <1>5
  <2>4. Cardinality(B) = Cardinality(A) + 1
    BY <2>3, <1>2, FS_AddElement
  <2> QED BY <1>3, <1>7, <2>4 DEF Rank, A, B
<1>8. CASE i + 1 \notin T
  <2> HIDE DEF A, B
  <2>1. \A j : j \in B <=> j \in A
    BY <1>4, <1>5, <1>6, <1>8
  <2>2. B = A
    BY <2>1
  <2> QED BY <1>3, <1>8, <2>2 DEF Rank, A, B
<1> QED BY <1>7, <1>8

(* Every rank up to the number of elements is that of one of them. *)
LEMMA RankFound ==
  ASSUME NEW L \in Nat, NEW T \in SUBSET (1..L), NEW n \in 1..Cardinality(T)
  PROVE  \E i \in T : Rank(T, i) = n
<1>1. \A j \in T : j \in 1..L
  OBVIOUS
<1>2. IsFiniteSet(T) /\ T \subseteq Nat
  <2>1. IsFiniteSet(1..L)
    BY FS_Interval
  <2>2. IsFiniteSet(T)
    BY <2>1, FS_Subset
  <2> QED BY <2>2, <1>1
<1>3. Cardinality(T) \in Nat
  BY <1>2, FS_CardinalityType
<1>4. \A i \in Nat : /\ Rank(T, i) \in Nat /\ Rank(T, i + 1) \in Nat
                     /\ i + 1 \in T => Rank(T, i + 1) = Rank(T, i) + 1
                     /\ i + 1 \notin T => Rank(T, i + 1) = Rank(T, i)
  BY <1>2, RankGrows
<1>5. Rank(T, 0) = 0
  <2>1. \A j \in T : ~(j <= 0)
    BY <1>1
  <2>2. Upper(T, 0) = {}
    BY <2>1 DEF Upper
  <2> QED BY <2>2, FS_EmptySet DEF Rank
<1>6. Rank(T, L) = Cardinality(T)
  <2>1. \A j \in T : j <= L
    BY <1>1
  <2>2. Upper(T, L) = T
    BY <2>1 DEF Upper
  <2> QED BY <2>2 DEF Rank
<1> DEFINE M == {i \in Nat : n <= Rank(T, i)}
<1>7. L \in M /\ M \in SUBSET Nat
  BY <1>6, <1>3
<1>8. PICK i \in M : \A j \in M : i <= j
  BY <1>7, Smallest
<1>9. i \in Nat /\ n <= Rank(T, i) /\ n \in Nat /\ n # 0
  BY <1>8, <1>3
<1>10. i # 0
  BY <1>9, <1>5
<1>11. PICK h \in Nat : i = h + 1
  <2>1. i - 1 \in Nat /\ i = i - 1 + 1
    BY <1>9, <1>10
  <2> QED BY <2>1
<1>12. ~(n <= Rank(T, h))
  <2>1. ~(h \in M)
    BY <1>8, <1>11
  <2> QED BY <2>1
<1> HIDE DEF M
<1>13. i \in T /\ Rank(T, i) = n
  <2> DEFINE r == Rank(T, h)
             q == Rank(T, i)
  <2>1. r \in Nat /\ q \in Nat /\ (i \in T => q = r + 1) /\ (i \notin T => q = r)
    BY <1>4, <1>11
  <2>2. n <= q /\ ~(n <= r) /\ n \in Nat
    BY <1>9, <1>12
  <2> HIDE DEF r, q
  <2> QED BY <2>1, <2>2 DEF q
<1> QED BY <1>13

Starts(line) ==
  {i \in DOMAIN line : line[i] # Blank /\ (i = 1 \/ line[i - 1] = Blank)}

Start(line, n) == CHOOSE i \in Starts(line) : Rank(Starts(line), i) = n

Ends(line, i) ==
  {j \in i + 1 .. Len(line) + 1 : j = Len(line) + 1 \/ line[j] = Blank}

WordFrom(line, i) == SubSeq(line, i, Min(Ends(line, i)) - 1)

LEMMA SplitIs ==
  ASSUME NEW line
  PROVE  SplitArgs(line) =
           [n \in 1..Cardinality(Starts(line)) |-> WordFrom(line, Start(line, n))]
BY DEF SplitArgs, Starts, Start, Ends, WordFrom, Rank, Upper

LEMMA StartIs ==
  ASSUME NEW line \in Seq(Token)
  PROVE  /\ Cardinality(Starts(line)) \in Nat
         /\ \A n \in 1..Cardinality(Starts(line)) :
              /\ Start(line, n) \in Starts(line)
              /\ Rank(Starts(line), Start(line, n)) = n
         /\ Starts(line) \subseteq 1..Len(line)
<1>1. PICK L \in Nat : L = Len(line)
  OBVIOUS
<1> DEFINE T == Starts(line)
<1>2. T \in SUBSET (1..L)
  BY <1>1 DEF Starts
<1>3. IsFiniteSet(T) /\ Cardinality(T) \in Nat
  <2>1. IsFiniteSet(1..L)
    BY FS_Interval
  <2> HIDE DEF T
  <2>2. IsFiniteSet(T)
    BY <1>2, <2>1, FS_Subset
  <2> QED BY <2>2, FS_CardinalityType

<1> HIDE DEF T
<1>4. \A n \in 1..Cardinality(T) : \E i \in T : Rank(T, i) = n
  BY <1>1, <1>2, RankFound
<1>5. \A n \in 1..Cardinality(T) :
        LET c == CHOOSE i \in T : Rank(T, i) = n IN c \in T /\ Rank(T, c) = n
  BY <1>4
<1> QED BY <1>1, <1>2, <1>3, <1>5 DEF T, Start

LEMMA WordFromIs ==
  ASSUME NEW line \in Seq(Token), NEW i \in 1..Len(line)
  PROVE  /\ Min(Ends(line, i)) \in Ends(line, i)
         /\ \A j \in Ends(line, i) : Min(Ends(line, i)) <= j
         /\ WordFrom(line, i) \in Seq(Token)
<1>1. Len(line) \in Nat
  OBVIOUS
<1>2. Ends(line, i) \in SUBSET Nat /\ Len(line) + 1 \in Ends(line, i)
  BY <1>1 DEF Ends
<1>3. /\ Min(Ends(line, i)) \in Ends(line, i)
      /\ \A j \in Ends(line, i) : Min(Ends(line, i)) <= j
  BY <1>2, MinIs
<1> DEFINE m == Min(Ends(line, i))
<1>4. m \in i + 1 .. Len(line) + 1
  BY <1>3 DEF Ends
<1> HIDE DEF m
<1>5. m - 1 \in i .. Len(line)
  BY <1>1, <1>4
<1>6. SubSeq(line, i, m - 1) \in Seq(Token)
  <2>1. \A j \in i .. m - 1 : line[j] \in Token
    BY <1>1, <1>5
  <2>2. i \in Int /\ m - 1 \in Int
    BY <1>1, <1>4
  <2> QED BY <2>1, <2>2, SubSeqProperties
<1> QED BY <1>3, <1>6 DEF WordFrom, m

LEMMA SplitType ==
  ASSUME NEW line \in Seq(Token)
  PROVE  SplitArgs(line) \in Seq(Seq(Token))
<1> DEFINE c == Cardinality(Starts(line))
<1>1. c \in Nat /\ \A n \in 1..c : Start(line, n) \in 1..Len(line)
  BY StartIs
<1> HIDE DEF c
<1>2. \A n \in 1..c : WordFrom(line, Start(line, n)) \in Seq(Token)
  BY <1>1, WordFromIs
<1>3. SplitArgs(line) = [n \in 1..c |-> WordFrom(line, Start(line, n))]
  BY SplitIs DEF c
<1> QED BY <1>1, <1>2, <1>3


-----------------------------------------------------------------------------
(* Splitting the words of a command gives its arguments. *)

LEMMA WordBounds ==
  ASSUME NEW k \in Args, NEW line, NEW L, NEW first, NEW last,
         WordsAt(line, k, L, first, last)
  PROVE  /\ L \in Nat \ {0} /\ first[1] = 1 /\ last[L] = Len(line)
         /\ \A n \in 1..L : /\ first[n] \in Nat \ {0} /\ last[n] \in Nat
                            /\ first[n] <= last[n] /\ last[n] <= last[L]
                            /\ n # 1 => first[n] = last[n - 1] + 2
         /\ \A n \in 1..L : \A m \in 1..n - 1 : last[m] < first[n]
<1>1. /\ L \in Nat \ {0} /\ L = Len(k) /\ last[L] = Len(line)
      /\ \A n \in 1..L : InWord(line, k, n, first, last)
  BY DEF WordsAt
<1>2. ASSUME NEW n \in 1..L
      PROVE  /\ first[n] \in Nat \ {0} /\ last[n] \in Nat /\ first[n] <= last[n]
             /\ n # 1 => first[n] = last[n - 1] + 2
             /\ n = 1 => first[n] = 1
  <2>1. Len(k[n]) \in Nat \ {0}
    BY <1>1, BulksIs
  <2>2. InWord(line, k, n, first, last)
    BY <1>1
  <2> QED BY <2>1, <2>2 DEF InWord
<1> DEFINE P(n) == n + 1 <= L => \A m \in 1..n : last[m] < first[n + 1]
           I == {n \in Nat : P(n)}
<1>3. P(0)
  OBVIOUS
<1>4. ASSUME NEW n \in Nat, P(n) PROVE P(n + 1)
  <2> SUFFICES ASSUME n + 1 + 1 <= L, NEW m \in 1..n + 1
               PROVE  last[m] < first[n + 1 + 1]
    OBVIOUS
  <2> DEFINE j == n + 1
             i == n + 1 + 1
  <2>1. j \in 1..L /\ i \in 1..L /\ i # 1 /\ i - 1 = j /\ m \in 1..L
    BY <1>1
  <2>2. m # j => m \in 1..n
    OBVIOUS
  <2>3. m # j => last[m] < first[j]
    BY <1>4, <2>1, <2>2
  <2> HIDE DEF i, j
  <2>4. first[i] = last[j] + 2 /\ last[j] \in Nat /\ first[j] \in Nat /\ first[j] <= last[j]
    BY <2>1, <1>2
  <2>5. last[m] \in Nat
    BY <2>1, <1>2
  <2>6. last[m] < first[i]
    BY <2>3, <2>4, <2>5
  <2> QED BY <2>6 DEF i
<1> HIDE DEF P
<1>5. 0 \in I /\ \A n \in Nat : n \in I => n + 1 \in I
  BY <1>3, <1>4
<1> HIDE DEF I
<1>6. Nat \subseteq I
  BY <1>5, Induction
<1> USE DEF I, P
<1>7. ASSUME NEW n \in 1..L, NEW m \in 1..n - 1 PROVE last[m] < first[n]
  <2> DEFINE h == n - 1
  <2>1. h \in Nat /\ h + 1 = n /\ n <= L
    BY <1>1
  <2>2. h \in I
    BY <2>1, <1>6
  <2> HIDE DEF h
  <2>3. \A j \in 1..h : last[j] < first[h + 1]
    BY <2>1, <2>2
  <2>4. m \in 1..h
    BY DEF h
  <2> QED BY <2>1, <2>3, <2>4
<1> HIDE DEF I, P
<1>8. ASSUME NEW n \in 1..L PROVE last[n] <= last[L]
  <2>1. L \in 1..L
    BY <1>1
  <2>2. last[n] \in Nat /\ last[L] \in Nat /\ first[L] \in Nat /\ first[L] <= last[L]
    BY <1>2, <2>1
  <2>3. n # L => n \in 1..L - 1
    BY <1>1

  <2>4. n # L => last[n] < first[L]
    BY <1>7, <2>1, <2>3
  <2> QED BY <2>2, <2>4
<1>9. 1 \in 1..L
  BY <1>1
<1> QED BY <1>1, <1>2, <1>7, <1>8, <1>9

LEMMA WordTokens ==
  ASSUME NEW k \in Args, NEW line, NEW L, NEW first, NEW last,
         WordsAt(line, k, L, first, last), NEW n \in 1..L
  PROVE  /\ \A p \in first[n] .. last[n] : line[p][1] = "char" /\ line[p] # Blank
         /\ n # 1 => line[first[n] - 1] = Blank
<1>1. L = Len(k) /\ InWord(line, k, n, first, last)
  BY DEF WordsAt
<1>2. k[n] \in Seq(Char) /\ Len(k[n]) \in Nat
  BY <1>1, BulksIs
<1> DEFINE l == Len(k[n])
           b == Letter(k[n])
<1>3. l \in Nat /\ \A i \in 1..l : b[i][1] = "char"
  BY <1>2, LetterIs
<1>4. /\ first[n] \in Nat \ {0} /\ last[n] = first[n] + l - 1
      /\ \A i \in 1..l : line[first[n] - 1 + i] = b[i]
      /\ n # 1 => line[first[n] - 1] = Blank
  BY <1>1 DEF InWord
<1> HIDE DEF l, b
<1>5. ASSUME NEW p \in first[n] .. last[n] PROVE line[p][1] = "char"
  <2> DEFINE i == p - first[n] + 1
  <2>1. i \in 1..l /\ first[n] - 1 + i = p
    BY <1>3, <1>4
  <2> HIDE DEF i
  <2>2. line[p] = b[i]
    BY <1>4, <2>1
  <2> QED BY <1>3, <2>1, <2>2
<1>6. Blank[1] # "char"
  BY DEF Blank
<1> QED BY <1>4, <1>5, <1>6

LEMMA WordStarts ==
  ASSUME NEW k \in Args, NEW line, NEW L, NEW first, NEW last,
         WordsAt(line, k, L, first, last)
  PROVE  \A i : i \in Starts(line) <=> \E n \in 1..L : i = first[n]
<1>1. /\ L \in Nat \ {0} /\ first[1] = 1 /\ last[L] = Len(line)
      /\ \A n \in 1..L : /\ first[n] \in Nat \ {0} /\ last[n] \in Nat
                         /\ first[n] <= last[n] /\ last[n] <= last[L]
                         /\ n # 1 => first[n] = last[n - 1] + 2
  BY WordBounds
<1>2. \A n \in 1..L : /\ \A p \in first[n] .. last[n] : line[p] # Blank
                      /\ n # 1 => line[first[n] - 1] = Blank
  BY WordTokens
<1>3. PICK N \in Nat : N = Len(line)
  BY DEF WordsAt
<1>4. DOMAIN line = 1..N
  BY <1>3 DEF WordsAt
<1>5. ASSUME NEW n \in 1..L PROVE first[n] \in Starts(line)
  <2>1. first[n] \in 1..N /\ first[n] \in first[n] .. last[n]
    BY <1>1, <1>3
  <2>2. first[n] = 1 \/ line[first[n] - 1] = Blank
    BY <1>1, <1>2
  <2> QED BY <1>2, <1>4, <2>1, <2>2 DEF Starts
<1>6. ASSUME NEW i \in Starts(line) PROVE \E n \in 1..L : i = first[n]
  <2>1. i \in 1..N /\ line[i] # Blank /\ (i = 1 \/ line[i - 1] = Blank)
    BY <1>4 DEF Starts
  <2>2. PICK n \in 1..L : IF n = 1 THEN i <= last[n] ELSE last[n - 1] < i /\ i <= last[n]
    BY <1>3, <2>1 DEF WordsAt
  <2>3. CASE i < first[n]
    <3>1. n # 1
      BY <2>1, <2>3, <1>1
    <3>2. n - 1 \in 1..L
      BY <3>1, <1>1
    <3>3. last[n - 1] \in Nat /\ first[n] = last[n - 1] + 2 /\ last[n - 1] < i
      BY <1>1, <2>2, <3>1, <3>2
    <3>4. i = first[n] - 1
      BY <2>1, <2>3, <3>3
    <3> QED BY <1>2, <2>1, <3>1, <3>4
  <2>4. CASE first[n] < i
    <3>1. first[n] \in Nat /\ last[n] \in Nat /\ i <= last[n] /\ i \in Nat
      BY <1>1, <2>1, <2>2
    <3>2. i - 1 \in first[n] .. last[n] /\ i # 1
      BY <2>4, <3>1, <1>1
    <3> QED BY <1>2, <2>1, <3>2
  <2>5. i = first[n] \/ i < first[n] \/ first[n] < i
    BY <1>1, <2>1
  <2> QED BY <2>3, <2>4, <2>5
<1> QED BY <1>5, <1>6


LEMMA WordRanks ==
  ASSUME NEW k \in Args, NEW line, NEW L, NEW first, NEW last,
         WordsAt(line, k, L, first, last)
  PROVE  /\ Cardinality(Starts(line)) = L
         /\ \A n \in 1..L : Rank(Starts(line), first[n]) = n
<1> DEFINE T == Starts(line)
<1>1. /\ L \in Nat \ {0} /\ first[1] = 1
      /\ \A n \in 1..L : /\ first[n] \in Nat \ {0} /\ last[n] \in Nat
                         /\ first[n] <= last[n]
      /\ \A n \in 1..L : \A m \in 1..n - 1 : last[m] < first[n]
  BY WordBounds
<1>2. \A i : i \in T <=> \E n \in 1..L : i = first[n]
  BY WordStarts
<1>3. ASSUME NEW m \in 1..L, NEW n \in 1..L PROVE first[m] <= first[n] <=> m <= n
  <2>1. /\ m < n => m \in 1..n - 1
        /\ n < m => n \in 1..m - 1
    OBVIOUS
  <2>2. /\ m < n => last[m] < first[n]
        /\ n < m => last[n] < first[m]
    BY <1>1, <2>1
  <2>3. /\ first[m] \in Nat /\ first[n] \in Nat /\ last[m] \in Nat /\ last[n] \in Nat
        /\ first[m] <= last[m] /\ first[n] <= last[n]
    BY <1>1
  <2>4. m = n \/ m < n \/ n < m
    OBVIOUS
  <2> QED BY <2>2, <2>3, <2>4
<1> HIDE DEF T
<1>4. \A n \in 1..L : \A i : i \in Upper(T, first[n]) <=> \E m \in 1..n : i = first[m]
  <2> SUFFICES ASSUME NEW n \in 1..L, NEW i
               PROVE  i \in Upper(T, first[n]) <=> \E m \in 1..n : i = first[m]
    OBVIOUS
  <2>1. i \in Upper(T, first[n]) <=> i \in T /\ i <= first[n]
    BY DEF Upper
  <2>2. \A m \in 1..L : m \in 1..n <=> m <= n
    OBVIOUS
  <2>3. \A m \in 1..n : m \in 1..L
    BY <1>1
  <2> QED BY <1>2, <1>3, <2>1, <2>2, <2>3
<1> DEFINE P(n) == n + 1 <= L => /\ IsFiniteSet(Upper(T, first[n + 1]))
                                 /\ Rank(T, first[n + 1]) = n + 1
           I == {n \in Nat : P(n)}
<1>5. P(0)
  <2>1. 1 \in 1..L
    BY <1>1
  <2>2. \A i : i \in Upper(T, first[1]) <=> \E m \in 1..1 : i = first[m]
    BY <1>4, <2>1
  <2>3. \A i : i \in Upper(T, first[1]) <=> i = first[1]
    BY <2>2
  <2>4. Upper(T, first[1]) = {first[1]}
    BY <2>3
  <2>5. IsFiniteSet(Upper(T, first[1])) /\ Cardinality(Upper(T, first[1])) = 1
    BY <2>4, FS_Singleton
  <2>6. 0 + 1 = 1
    OBVIOUS
  <2> QED BY <2>5, <2>6 DEF Rank
<1>6. ASSUME NEW n \in Nat, P(n) PROVE P(n + 1)
  <2> SUFFICES ASSUME n + 1 + 1 <= L
               PROVE  /\ IsFiniteSet(Upper(T, first[n + 1 + 1]))
                      /\ Rank(T, first[n + 1 + 1]) = n + 1 + 1
    OBVIOUS
  <2> DEFINE j == n + 1
             i == n + 1 + 1
  <2>1. j \in 1..L /\ i \in 1..L /\ j \in Nat /\ i = j + 1 /\ ~(i <= j)
    BY <1>1
  <2>2. IsFiniteSet(Upper(T, first[j])) /\ Rank(T, first[j]) = j
    BY <1>6, <2>1
  <2>3. \A m : m \in 1..i <=> m \in 1..j \/ m = i
    OBVIOUS
  <2> HIDE DEF i, j
  <2> DEFINE A == Upper(T, first[j])
             B == Upper(T, first[i])
  <2>4. \A x : x \in A <=> \E m \in 1..j : x = first[m]
    BY <1>4, <2>1
  <2>5. \A x : x \in B <=> \E m \in 1..i : x = first[m]
    BY <1>4, <2>1
  <2>6. ~(first[i] \in A)
    <3>1. ~(first[i] <= first[j])
      BY <1>3, <2>1
    <3> QED BY <3>1 DEF Upper
  <2>7. IsFiniteSet(A) /\ Cardinality(A) = j
    BY <2>2 DEF Rank
  <2> HIDE DEF A, B
  <2>8. \A x : x \in B <=> x \in A \/ x = first[i]
    BY <2>3, <2>4, <2>5
  <2>9. B = A \cup {first[i]}
    BY <2>8
  <2>10. IsFiniteSet(B) /\ Cardinality(B) = j + 1
    <3>1. IsFiniteSet(B) /\ Cardinality(B) = Cardinality(A) + 1
      BY <2>6, <2>7, <2>9, FS_AddElement
    <3> QED BY <3>1, <2>7
  <2>11. IsFiniteSet(Upper(T, first[i])) /\ Rank(T, first[i]) = i
    BY <2>1, <2>10 DEF B, Rank
  <2> QED BY <2>11 DEF i
<1> HIDE DEF P
<1>7. 0 \in I /\ \A n \in Nat : n \in I => n + 1 \in I
  BY <1>5, <1>6
<1> HIDE DEF I
<1>8. Nat \subseteq I
  BY <1>7, Induction
<1> USE DEF I, P
<1>9. ASSUME NEW n \in 1..L PROVE Rank(T, first[n]) = n
  <2> DEFINE h == n - 1
  <2>1. h \in Nat /\ h + 1 = n /\ n <= L
    BY <1>1
  <2>2. P(h)
    BY <2>1, <1>8
  <2> HIDE DEF h
  <2> QED BY <2>1, <2>2
<1> HIDE DEF I, P
<1>10. Upper(T, first[L]) = T
  <2>1. L \in 1..L
    BY <1>1
  <2>2. \A i : i \in Upper(T, first[L]) <=> i \in T
    BY <1>2, <1>4, <2>1
  <2> QED BY <2>2 DEF Upper
<1>11. Cardinality(T) = L
  <2>1. L \in 1..L
    BY <1>1
  <2>2. Rank(T, first[L]) = L
    BY <1>9, <2>1
  <2> QED BY <1>10, <2>2 DEF Rank
<1> QED BY <1>9, <1>11 DEF T

LEMMA WordFromStart ==
  ASSUME NEW k \in Args, NEW line, NEW L, NEW first, NEW last,
         WordsAt(line, k, L, first, last), NEW n \in 1..L
  PROVE  WordFrom(line, first[n]) = Letter(k[n])
<1> DEFINE f == first[n]
           e == last[n]
           l == Len(k[n])
           b == Letter(k[n])
<1>1. L = Len(k) /\ InWord(line, k, n, first, last) /\ line \in Seq(Token)
  BY DEF WordsAt
<1>2. k[n] \in Seq(Char) /\ l \in Nat
  BY <1>1, BulksIs
<1>3. b \in Seq(Token) /\ Len(b) = l
  BY <1>2, LetterIs
<1>4. f \in Nat \ {0} /\ e = f + l - 1 /\ \A i \in 1..l : line[f - 1 + i] = b[i]
  BY <1>1 DEF InWord
<1>5. PICK N \in Nat : N = Len(line)
  BY <1>1
<1>6. L \in Nat /\ f <= e /\ e \in Nat /\ e <= N /\ f \in 1..N /\ last[L] = N
  BY <1>5, WordBounds
<1>7. n # L => n + 1 \in 1..L /\ first[n + 1] - 1 = e + 1 /\ line[first[n + 1] - 1] = Blank
  <2> SUFFICES ASSUME n # L
               PROVE n + 1 \in 1..L /\ first[n + 1] - 1 = e + 1 /\ line[first[n + 1] - 1] = Blank
    OBVIOUS
  <2> DEFINE m == n + 1
  <2>1. m \in 1..L /\ m # 1 /\ m - 1 = n
    BY <1>6
  <2> HIDE DEF m
  <2>2. first[m] = last[m - 1] + 2
    BY <2>1, WordBounds
  <2>3. line[first[m] - 1] = Blank
    BY <2>1, WordTokens
  <2>4. first[m] - 1 = e + 1
    BY <1>6, <2>1, <2>2
  <2> QED BY <2>1, <2>3, <2>4 DEF m
<1> DEFINE E == Ends(line, f)
           x == Min(E)
<1>8. x \in E /\ \A j \in E : x <= j
  BY <1>1, <1>5, <1>6, WordFromIs
<1>9. \A j : j \in E <=> j \in f + 1 .. N + 1 /\ (j = N + 1 \/ line[j] = Blank)
  BY <1>5 DEF Ends
<1>10. WordFrom(line, f) = SubSeq(line, f, x - 1)
  BY DEF WordFrom
<1> HIDE DEF E, x, b, l
<1>11. e + 1 \in E
  <2>1. e + 1 \in f + 1 .. N + 1
    BY <1>6, <1>4
  <2>2. n = L => e + 1 = N + 1
    BY <1>6
  <2>3. n # L => line[e + 1] = Blank
    BY <1>7
  <2> QED BY <1>9, <2>1, <2>2, <2>3
<1>12. \A j \in f .. e : line[j] # Blank
  BY WordTokens
<1> HIDE DEF f, e
<1>13. x = e + 1
  <2>1. x \in Nat /\ f + 1 <= x /\ x <= e + 1
    <3>1. x \in f + 1 .. N + 1 /\ x <= e + 1
      BY <1>8, <1>9, <1>11
    <3> QED BY <3>1, <1>4, <1>5
  <2>2. CASE x <= e
    <3>1. x \in f .. e /\ x # N + 1
      BY <2>1, <2>2, <1>4, <1>5, <1>6
    <3> QED BY <3>1, <1>8, <1>9, <1>12
  <2> QED BY <2>1, <2>2, <1>6
<1>14. x - 1 = e
  BY <1>6, <1>13
<1> DEFINE w == SubSeq(line, f, e)
<1>15. /\ w \in Seq(Token) /\ Len(w) = (IF f <= e THEN e - f + 1 ELSE 0)
       /\ \A i \in 1 .. e - f + 1 : w[i] = line[f + i - 1]
  <2>1. DOMAIN line = 1..N /\ \A j \in 1..N : line[j] \in Token
    BY <1>1, <1>5
  <2>2. \A j \in f..e : line[j] \in Token
    BY <1>4, <1>6, <1>5, <2>1
  <2>3. f \in Int /\ e \in Int
    BY <1>4, <1>6
  <2> QED BY <2>2, <2>3, SubSeqProperties
<1> HIDE DEF w
<1>16. e - f + 1 = l /\ \A i \in 1..l : f + i - 1 = f - 1 + i
  BY <1>2, <1>4 DEF l
<1>17. w \in Seq(Token) /\ Len(w) = l /\ \A i \in 1..l : w[i] = b[i]
  BY <1>4, <1>6, <1>15, <1>16
<1>18. w = b
  BY <1>3, <1>17, SeqEqual
<1> QED BY <1>10, <1>14, <1>18 DEF w, f, b

LEMMA SplitWords ==
  ASSUME NEW k \in Args
  PROVE  SplitArgs(Words(k)) = Arguments(k)
<1> DEFINE line == Words(k)
<1>1. PICK L, first, last : WordsAt(line, k, L, first, last)
  BY WordsFound
<1>2. L \in Nat /\ L = Len(k) /\ line \in Seq(Token)
  BY <1>1 DEF WordsAt
<1> HIDE DEF line
<1>3. /\ Cardinality(Starts(line)) = L
      /\ \A n \in 1..L : Rank(Starts(line), first[n]) = n
  BY <1>1, WordRanks
<1>4. ASSUME NEW n \in 1..L PROVE WordFrom(line, Start(line, n)) = Letter(k[n])
  <2>1. Start(line, n) \in Starts(line) /\ Rank(Starts(line), Start(line, n)) = n
    BY <1>2, <1>3, StartIs
  <2>2. PICK m \in 1..L : Start(line, n) = first[m]
    BY <1>1, <2>1, WordStarts
  <2>3. m = n
    BY <1>3, <2>1, <2>2
  <2> QED BY <1>1, <2>2, <2>3, WordFromStart
<1>5. SplitArgs(line) = [n \in 1..L |-> WordFrom(line, Start(line, n))]
  BY <1>3, SplitIs
<1>6. Arguments(k) = [n \in 1..L |-> Letter(k[n])]
  <2>1. DOMAIN k = 1..L
    BY <1>2, BulksIs
  <2> QED BY <2>1 DEF Arguments
<1> QED BY <1>4, <1>5, <1>6 DEF line


-----------------------------------------------------------------------------
(* The tokens of an inline command: its words, then the end of the line. *)

LEMMA WordsIs ==
  ASSUME NEW k \in Args
  PROVE  /\ Words(k) \in Seq(Token) /\ Len(Words(k)) \in Nat \ {0}
         /\ \A p \in 1..Len(Words(k)) : Words(k)[p][1] \in {"char", "blank"}
         /\ Words(k)[1][1] = "char"
<1> DEFINE line == Words(k)
<1>1. PICK L, first, last : WordsAt(line, k, L, first, last)
  BY WordsFound
<1>2. PICK N \in Nat : N = Len(line) /\ line \in Seq(Token)
  BY <1>1 DEF WordsAt
<1> HIDE DEF line
<1>3. /\ L \in Nat \ {0} /\ first[1] = 1 /\ last[L] = N
      /\ \A n \in 1..L : /\ first[n] \in Nat \ {0} /\ last[n] \in Nat
                         /\ first[n] <= last[n] /\ last[n] <= last[L]
                         /\ n # 1 => first[n] = last[n - 1] + 2
  BY <1>1, <1>2, WordBounds
<1>4. \A n \in 1..L : /\ \A p \in first[n] .. last[n] : line[p][1] = "char"
                      /\ n # 1 => line[first[n] - 1] = Blank
  BY <1>1, WordTokens
<1>5. 1 \in 1..L /\ 1 \in first[1] .. last[1]
  BY <1>3
<1>6. line[1][1] = "char"
  BY <1>4, <1>5
<1>7. N # 0
  BY <1>3, <1>5
<1>8. ASSUME NEW p \in 1..N PROVE line[p][1] \in {"char", "blank"}
  <2>1. PICK n \in 1..L : IF n = 1 THEN p <= last[n] ELSE last[n - 1] < p /\ p <= last[n]
    BY <1>1, <1>2 DEF WordsAt
  <2>2. first[n] \in Nat /\ last[n] \in Nat /\ p <= last[n]
    BY <1>3, <2>1
  <2>3. CASE first[n] <= p
    <3>1. p \in first[n] .. last[n]
      BY <2>2, <2>3
    <3> QED BY <1>4, <3>1
  <2>4. CASE p < first[n]
    <3>1. n # 1
      BY <1>3, <2>4
    <3>2. n - 1 \in 1..L
      BY <1>3, <3>1
    <3>3. first[n] = last[n - 1] + 2 /\ last[n - 1] < p /\ last[n - 1] \in Nat
      BY <1>3, <2>1, <3>1, <3>2
    <3>4. p = first[n] - 1
      BY <2>2, <2>4, <3>3
    <3> QED BY <1>4, <3>1, <3>4 DEF Blank
  <2> QED BY <2>2, <2>3, <2>4
<1> QED BY <1>2, <1>6, <1>7, <1>8 DEF line

LEMMA InlineIs ==
  ASSUME NEW k \in Args, NEW t \in Inline(k)
  PROVE  LET w == Len(Words(k)) IN
         /\ t \in Seq(Token) /\ w \in Nat \ {0} /\ Len(t) \in {w + 1, w + 2}
         /\ \A p \in 1..w : t[p] = Words(k)[p]
         /\ \A p \in 1..Len(t) : t[p] = LF <=> p = Len(t)
         /\ \A p \in 1..Len(t) : t[p] # Quote
         /\ t[Len(t) - 1] = CR <=> Len(t) = w + 2
         /\ t[1][1] = "char"
<1> DEFINE W == Words(k)
           w == Len(W)
<1>1. /\ W \in Seq(Token) /\ w \in Nat \ {0}
      /\ \A p \in 1..w : W[p][1] \in {"char", "blank"}
      /\ W[1][1] = "char"
  BY WordsIs
<1>2. \A x : x[1] \in {"char", "blank"} => x # LF /\ x # Quote /\ x # CR
  BY DEF LF, Quote, CR
<1>3. LF # Quote /\ LF # CR /\ CR # Quote /\ CR \in Token /\ LF \in Token
  BY TokenIs DEF LF, Quote, CR
<1> SUFFICES /\ t \in Seq(Token) /\ w \in Nat \ {0} /\ Len(t) \in {w + 1, w + 2}
             /\ \A p \in 1..w : t[p] = W[p]
             /\ \A p \in 1..Len(t) : t[p] = LF <=> p = Len(t)
             /\ \A p \in 1..Len(t) : t[p] # Quote
             /\ t[Len(t) - 1] = CR <=> Len(t) = w + 2
             /\ t[1][1] = "char"
  OBVIOUS
<1>4. \E e : e \in {<<CR, LF>>, <<LF>>} /\ Cat(W, e, t)
  BY DEF Inline, Cat
<1>5. PICK e : e \in {<<CR, LF>>, <<LF>>} /\ Cat(W, e, t)
  BY <1>4
<1>6. e \in Seq(Token) /\ Cat(W, e, t) /\ W \in Seq(Token)
  <2>1. <<CR, LF>> \in Seq(Token) /\ <<LF>> \in Seq(Token)
    BY <1>3
  <2> HIDE DEF W
  <2> QED BY <1>1, <1>5, <2>1

<1> HIDE DEF W
<1>7. /\ t \in Seq(Token) /\ Len(t) = Len(W) + Len(e)
      /\ \A i \in 1..Len(W) : t[i] = W[i]
      /\ \A i \in 1..Len(e) : t[Len(W) + i] = e[i]
  BY ONLY <1>6, Concat
<1> HIDE DEF w
<1>8. w = Len(W)
  BY DEF w
<1>9. /\ \A i \in 1..w : t[i] = W[i] /\ t[i] # LF /\ t[i] # Quote /\ t[i] # CR
      /\ t[1][1] = "char"
  BY <1>1, <1>2, <1>7, <1>8
<1>10. CASE e = <<LF>>
  <2>1. Len(e) = 1 /\ e[1] = LF
    BY <1>10
  <2>2. Len(t) = w + 1 /\ t[w + 1] = LF
    BY <1>7, <1>8, <2>1
  <2>3. \A p \in 1..Len(t) : p \in 1..w \/ p = w + 1
    BY <1>1, <2>2
  <2>4. Len(t) - 1 \in 1..w
    BY <1>1, <2>2
  <2>5. /\ \A p \in 1..Len(t) : t[p] = LF <=> p = Len(t)
        /\ \A p \in 1..Len(t) : t[p] # Quote
    BY <1>1, <1>3, <1>9, <2>2, <2>3
  <2>6. t[Len(t) - 1] # CR /\ Len(t) # w + 2
    BY <1>1, <1>9, <2>2, <2>4
  <2> QED BY <1>1, <1>7, <1>9, <2>2, <2>5, <2>6
<1>11. CASE e = <<CR, LF>>
  <2>1. Len(e) = 2 /\ e[1] = CR /\ e[2] = LF
    BY <1>11
  <2>2. Len(t) = w + 2 /\ t[w + 1] = CR /\ t[w + 2] = LF
    BY <1>7, <1>8, <2>1
  <2>3. \A p \in 1..Len(t) : p \in 1..w \/ p = w + 1 \/ p = w + 2
    BY <1>1, <2>2
  <2>4. Len(t) - 1 = w + 1 /\ w + 1 # w + 2 /\ ~(w + 2 \in 1..w)
    BY <1>1, <2>2
  <2>5. \A p \in 1..Len(t) : t[p] = LF <=> p = Len(t)
    BY <1>1, <1>3, <1>9, <2>2, <2>3, <2>4
  <2>6. \A p \in 1..Len(t) : t[p] # Quote
    BY <1>3, <1>9, <2>2, <2>3
  <2> QED BY <1>1, <1>7, <1>9, <2>2, <2>4, <2>5, <2>6
<1> QED BY <1>5, <1>10, <1>11

-----------------------------------------------------------------------------
(* The parser's operators on the buffer. *)

LEMMA DropIs ==
  ASSUME buf \in Seq(Token), NEW n \in Nat
  PROVE  /\ Drop(n) \in Seq(Token)
         /\ Len(buf) <= n => Drop(n) = <<>>
<1>1. PICK N \in Nat : N = Len(buf)
  OBVIOUS
<1>2. DOMAIN buf = 1..N /\ \A i \in 1..N : buf[i] \in Token
  BY <1>1
<1>3. \A i \in n + 1 .. N : buf[i] \in Token
  BY <1>2
<1>4. SubSeq(buf, n + 1, N) \in Seq(Token)
  <2>1. n + 1 \in Int /\ N \in Int
    OBVIOUS
  <2> QED BY <1>3, <2>1, SubSeqProperties
<1>5. N <= n => SubSeq(buf, n + 1, N) = <<>>
  <2>1. n + 1 \in Int /\ N \in Int /\ (N <= n => N < n + 1)
    OBVIOUS
  <2> QED BY <2>1, SubSeqEmpty
<1> QED BY <1>1, <1>4, <1>5 DEF Drop

LEMMA FirstCRIs ==
  ASSUME buf \in Seq(Token), NEW from \in Nat
  PROVE  /\ FirstCR(from) \in Nat
         /\ FirstCR(from) # 0 => /\ FirstCR(from) \in from + 1 .. Len(buf)
                                 /\ buf[FirstCR(from)] = CR
         /\ \A i \in from + 1 .. Len(buf) :
              buf[i] = CR => FirstCR(from) # 0 /\ FirstCR(from) <= i
<1>1. PICK N \in Nat : N = Len(buf)
  OBVIOUS
<1> DEFINE at == {i \in from + 1 .. Len(buf) : buf[i] = CR}
<1>2. FirstCR(from) = IF at = {} THEN 0 ELSE Min(at)
  BY DEF FirstCR
<1>3. \A i \in at : i \in Nat \ {0} /\ i \in from + 1 .. Len(buf) /\ buf[i] = CR
  BY <1>1
<1>4. at \in SUBSET Nat
  BY <1>3
<1>5. \A i \in from + 1 .. Len(buf) : buf[i] = CR => i \in at
  OBVIOUS
<1> HIDE DEF at
<1>6. at # {} => Min(at) \in at /\ \A i \in at : Min(at) <= i
  BY <1>4, MinIs
<1>7. CASE at = {}
  BY <1>2, <1>5, <1>7
<1>8. CASE at # {}
  BY <1>2, <1>3, <1>5, <1>6, <1>8
<1> QED BY <1>7, <1>8

LEMMA LineIs ==
  ASSUME buf \in Seq(Token), LF \in Range(buf)
  PROVE  /\ LineEnd \in 1..Len(buf) /\ Line \in Seq(Token) /\ Len(Line) = LineEnd - 1
         /\ \A i \in 1 .. LineEnd - 1 : Line[i] = buf[i]
         /\ \A p \in 1..Len(buf) : (\A i \in 1..Len(buf) : buf[i] = LF <=> i = p) =>
              LineEnd = IF p > 1 /\ buf[p - 1] = CR THEN p - 1 ELSE p
<1>1. PICK N \in Nat : N = Len(buf)
  OBVIOUS
<1>2. DOMAIN buf = 1..N /\ \A i \in 1..N : buf[i] \in Token
  BY <1>1
<1> DEFINE I == {i \in 1..Len(buf) : buf[i] = LF}
           nl == SelectInSeq(buf, LAMBDA t : t = LF)
<1>3. nl = IF I # {} THEN Min(I) ELSE 0
  BY DEF SelectInSeq
<1>4. \A i : i \in I <=> i \in 1..N /\ buf[i] = LF
  BY <1>1
<1>5. I # {}
  <2>1. \E i \in 1..N : buf[i] = LF
    BY <1>2 DEF Range
  <2> QED BY <1>4, <2>1
<1>6. LineEnd = IF nl > 1 /\ buf[nl - 1] = CR THEN nl - 1 ELSE nl
  BY DEF LineEnd
<1> HIDE DEF I, nl
<1>7. I \in SUBSET Nat
  BY <1>4
<1>8. nl \in 1..N /\ buf[nl] = LF
  BY <1>3, <1>4, <1>5, <1>7, MinIs
<1>9. PICK e \in 1..N : e = LineEnd
  <2>1. LineEnd \in 1..N
    BY <1>6, <1>8
  <2> QED BY <2>1
<1>10. \A i \in 1 .. e - 1 : buf[i] \in Token
  BY <1>2
<1>11. /\ SubSeq(buf, 1, e - 1) \in Seq(Token)
       /\ Len(SubSeq(buf, 1, e - 1)) = IF 1 <= e - 1 THEN e - 1 - 1 + 1 ELSE 0
       /\ \A i \in 1 .. e - 1 - 1 + 1 : SubSeq(buf, 1, e - 1)[i] = buf[1 + i - 1]
  <2>1. 1 \in Int /\ e - 1 \in Int
    OBVIOUS
  <2> QED BY <1>10, <2>1, SubSeqProperties
<1>12. Line = SubSeq(buf, 1, e - 1)
  BY <1>9 DEF Line
<1> DEFINE l == Line
<1>13. /\ l \in Seq(Token) /\ Len(l) = e - 1
       /\ \A i \in 1 .. e - 1 : l[i] = buf[i]
  <2> DEFINE s == SubSeq(buf, 1, e - 1)
  <2>1. l = s
    BY <1>12
  <2>2. /\ s \in Seq(Token)
        /\ Len(s) = IF 1 <= e - 1 THEN e - 1 - 1 + 1 ELSE 0
        /\ \A i \in 1 .. e - 1 - 1 + 1 : s[i] = buf[1 + i - 1]
    BY <1>11
  <2> HIDE DEF s, l
  <2>3. Len(s) = e - 1
    BY <2>2
  <2>4. \A i \in 1 .. e - 1 : s[i] = buf[i]
    <3> SUFFICES ASSUME NEW i \in 1 .. e - 1 PROVE s[i] = buf[i]
      OBVIOUS
    <3>1. i \in 1 .. e - 1 - 1 + 1 /\ 1 + i - 1 = i
      OBVIOUS
    <3> QED BY <2>2, <3>1
  <2> QED BY <2>1, <2>2, <2>3, <2>4
<1>14. ASSUME NEW p \in 1..N, \A i \in 1..N : buf[i] = LF <=> i = p
       PROVE  e = IF p > 1 /\ buf[p - 1] = CR THEN p - 1 ELSE p
  <2>1. nl = p
    BY <1>8, <1>14
  <2> QED BY <1>6, <1>9, <2>1
<1> HIDE DEF l
<1> QED BY <1>1, <1>9, <1>13, <1>14 DEF l


-----------------------------------------------------------------------------
(* The inductive invariant. *)

AtRest == argv = <<>> /\ multi_bulk_len = 0 /\ bulk_len = -1

(* The tokens of command k, as the subscriber sent it. *)
Form(k, multi, tokens) ==
  k \in Commands /\ IF multi THEN tokens = Multi(k) ELSE tokens \in Inline(k)

(* None of the commands from stream[from] on has been read from yet. *)
Fresh(from) ==
  \A i \in from..Len(stream) : Form(sent[whole + i], stream[i].multi, stream[i].rest)

(* Between two commands, or with a part of an inline command read. *)
Waiting ==
  /\ pc \in {"idle", "loop", "exec"} /\ AtRest
  /\ executed = Complete
  /\ Fresh(2)
  /\ IF stream = <<>> THEN buf = <<>>
     ELSE /\ Form(sent[whole + 1], stream[1].multi, buf \o stream[1].rest)
          /\ stream[1].rest # <<>>
          /\ stream[1].multi => buf = <<>>

(* Within a multibulk command, its first n arguments taken. *)
InArguments(k) ==
  LET n == Len(argv) IN
  /\ pc = "bulk" /\ buf = Multi(k) /\ cap = Len(k)
  /\ n <= Len(k) /\ multi_bulk_len = Len(k) - n
  /\ \A i \in 1..n : argv[i] = Letter(k[i])
  /\ \/ bulk_len = -1 /\ pos = Offset(k, n)
     \/ n < Len(k) /\ bulk_len = Len(k[n + 1]) /\ pos = Offset(k, n) + 3

(* A command was read whole and is not executed yet. *)
Handling ==
  /\ whole > 0 /\ sent[whole] \in Commands
  /\ executed = [i \in 1..whole - 1 |-> Arguments(sent[i])]
  /\ Fresh(1)
  /\ LET k == sent[whole] IN
     \/ pc = "loop" /\ AtRest /\ buf \in Inline(k) \cup {Multi(k)}
     \/ InArguments(k)
     \/ /\ pc = "loop" /\ buf = <<>> /\ argv = Arguments(k)
        /\ multi_bulk_len = 0 /\ bulk_len = -1

Types ==
  /\ stream \in Seq([multi : BOOLEAN, rest : Seq(Token)])
  /\ sent \in Seq(Commands \cup {<<>>}) /\ whole \in Nat
  /\ argv \in Seq(Seq(Token) \cup {Junk})
  /\ pc = "bulk" /\ multi_bulk_len = 0 => argv # <<>>

IInv == TypeOK /\ Types /\ (Orderly => Waiting \/ Handling)

LEMMA CommandsAre == Commands \subseteq Args
<1>1. SUFFICES ASSUME NEW k \in Commands PROVE k \in Args
  OBVIOUS
<1>2. k # <<>> /\ k \in Seq(Arg)
  BY CommandAssumption DEF Arg
<1> QED BY <1>2 DEF Args

LEMMA FormIs ==
  ASSUME NEW k, NEW multi, NEW t, Form(k, multi, t)
  PROVE  /\ t \in Seq(Token) /\ t # <<>>
         /\ multi => t[1][1] = "star"
         /\ ~multi => t[1][1] = "char"
<1>1. k \in Args
  BY CommandsAre DEF Form
<1>2. CASE multi
  <2>1. t = Multi(k)
    BY <1>2 DEF Form
  <2>2. t \in Seq(Token) /\ Len(t) >= 3 /\ t[1] = Star(Len(k))
    BY <1>1, <2>1, MultiIs
  <2>3. t # <<>>
    BY <2>2, EmptySeq
  <2> QED BY <1>2, <2>2, <2>3 DEF Star
<1>3. CASE ~multi
  <2>1. t \in Inline(k)
    BY <1>3 DEF Form
  <2>2. /\ t \in Seq(Token) /\ t[1][1] = "char"
        /\ Len(Words(k)) \in Nat \ {0}
        /\ Len(t) \in {Len(Words(k)) + 1, Len(Words(k)) + 2}
    BY <1>1, <2>1, InlineIs
  <2>3. Len(t) # 0
    BY <2>2
  <2>4. t # <<>>
    BY <2>3, EmptySeq
  <2> QED BY <1>3, <2>2, <2>4
<1> QED BY <1>2, <1>3

(* A whole inline command in the buffer is one line, the words. *)
LEMMA WholeLine ==
  ASSUME NEW k \in Args, buf \in Inline(k)
  PROVE  /\ LF \in Range(buf) /\ Quote \notin Range(Line)
         /\ Line = Words(k) /\ Drop(Len(Line) + 2) = <<>>
<1> DEFINE W == Words(k)
<1>1. PICK w \in Nat : w = Len(W) /\ w # 0
  BY WordsIs
<1>2. /\ buf \in Seq(Token) /\ Len(buf) \in {w + 1, w + 2}
      /\ \A p \in 1..w : buf[p] = W[p]
      /\ \A p \in 1..Len(buf) : buf[p] = LF <=> p = Len(buf)
      /\ \A p \in 1..Len(buf) : buf[p] # Quote
      /\ buf[Len(buf) - 1] = CR <=> Len(buf) = w + 2
  BY <1>1, InlineIs
<1>3. PICK N \in Nat : N = Len(buf)
  BY <1>2
<1>4. N \in 1..N /\ N > 1
  <2>1. N = w + 1 \/ N = w + 2
    BY <1>2, <1>3
  <2>2. w \in Nat \ {0}
    BY <1>1
  <2> QED BY ONLY <2>1, <2>2

<1>5. LF \in Range(buf)
  <2>1. DOMAIN buf = 1..N /\ buf[N] = LF
    BY <1>2, <1>3, <1>4
  <2> QED BY <2>1, <1>4 DEF Range
<1>6. LineEnd = w + 1
  <2>1. LineEnd = IF N > 1 /\ buf[N - 1] = CR THEN N - 1 ELSE N
    BY <1>2, <1>3, <1>4, <1>5, LineIs
  <2> QED BY <2>1, <1>2, <1>3, <1>4
<1>7. /\ Line \in Seq(Token) /\ Len(Line) = w
      /\ \A i \in 1..w : Line[i] = buf[i]
  BY <1>2, <1>5, <1>6, LineIs
<1>8. Line = W
  <2>1. W \in Seq(Token) /\ \A i \in 1..w : Line[i] = W[i]
    BY <1>2, <1>7, WordsIs
  <2> HIDE DEF W
  <2> QED BY <1>1, <1>7, <2>1, SeqEqual
<1>9. Quote \notin Range(Line)
  <2>1. DOMAIN Line = 1..w
    BY <1>7
  <2>2. \A i \in 1..w : Line[i] # Quote
    BY <1>2, <1>7
  <2> QED BY <2>1, <2>2 DEF Range
<1>10. Drop(Len(Line) + 2) = <<>>
  <2>1. Len(Line) + 2 \in Nat /\ Len(buf) <= Len(Line) + 2
    BY <1>2, <1>7
  <2> QED BY <2>1, <1>2, DropIs
<1> QED BY <1>5, <1>8, <1>9, <1>10

(* A command that is not read to its end holds no LF yet. *)
LEMMA PartLine ==
  ASSUME NEW k \in Args, NEW rest \in Seq(Token), rest # <<>>,
         buf \in Seq(Token), buf \o rest \in Inline(k)
  PROVE  LF \notin Range(buf) /\ (buf # <<>> => buf[1][1] = "char")
<1> DEFINE t == buf \o rest
<1>1. Cat(buf, rest, t)
  BY DEF Cat
<1>2. \A p \in 1..Len(t) : t[p] = LF <=> p = Len(t)
  BY InlineIs
<1>3. t[1][1] = "char"
  BY InlineIs
<1> HIDE DEF t
<1>4. /\ Len(t) = Len(buf) + Len(rest) /\ Len(buf) \in Nat /\ Len(rest) \in Nat
      /\ \A i \in 1..Len(buf) : t[i] = buf[i]
  BY ONLY <1>1, buf \in Seq(Token), rest \in Seq(Token), Concat
<1>5. Len(rest) # 0
  BY EmptySeq
<1>6. PICK N \in Nat : N = Len(buf)
  BY <1>4
<1>7. Len(t) \in Nat /\ N < Len(t)
  BY <1>4, <1>5, <1>6
<1>8. \A i \in 1..N : buf[i] # LF
  <2> SUFFICES ASSUME NEW i \in 1..N PROVE buf[i] # LF
    OBVIOUS
  <2>1. i \in 1..Len(t) /\ i # Len(t) /\ t[i] = buf[i]
    BY <1>4, <1>6, <1>7
  <2> QED BY <1>2, <2>1
<1>9. DOMAIN buf = 1..N
  BY <1>6
<1>10. buf # <<>> => buf[1][1] = "char"
  <2>1. buf # <<>> => 1 \in 1..N
    BY <1>6, EmptySeq
  <2> QED BY <1>3, <1>4, <1>6, <2>1
<1> QED BY <1>8, <1>9, <1>10 DEF Range


-----------------------------------------------------------------------------
(* A read takes whole commands off the stream, and a part of the next. *)

LEMMA FlattenNone == FlattenSeq(<<>>) = <<>>
BY EmptySeq DEF FlattenSeq

LEMMA FlattenOne ==
  ASSUME NEW S, NEW s \in Seq(Seq(S)), Len(s) = 1
  PROVE  FlattenSeq(s) = s[1]
<1> DEFINE f == FlattenSeq(s)
           x == s[1]
<1>1. /\ f \in Seq(S) /\ Len(f) = End(s, Len(s)) /\ End(s, 0) = 0
      /\ \A n \in 1..Len(s) : /\ End(s, n) = End(s, n - 1) + Len(s[n])
                              /\ \A i \in 1..Len(s[n]) : f[End(s, n - 1) + i] = s[n][i]
  BY Pieces
<1>2. x \in Seq(S) /\ Len(x) \in Nat
  OBVIOUS
<1>3. 1 \in 1..Len(s) /\ 1 - 1 = 0
  OBVIOUS
<1> HIDE DEF f
<1>4. End(s, 1) = 0 + Len(x) /\ \A i \in 1..Len(x) : f[0 + i] = x[i]
  BY <1>1, <1>3
<1> HIDE DEF x
<1>5. Len(f) = Len(x) /\ \A i \in 1..Len(x) : f[i] = x[i]
  BY <1>1, <1>2, <1>4
<1>6. f = x
  BY <1>1, <1>2, <1>5, SeqEqual
<1> QED BY <1>6 DEF f, x

LEMMA Cut ==
  ASSUME NEW S, NEW x \in Seq(S), NEW p \in 1 .. Len(x) - 1
  PROVE  LET a == SubSeq(x, 1, p)
             b == SubSeq(x, p + 1, Len(x))
         IN a \in Seq(S) /\ b \in Seq(S) /\ b # <<>> /\ a \o b = x
<1> DEFINE a == SubSeq(x, 1, p)
           b == SubSeq(x, p + 1, Len(x))
           c == a \o b
<1>1. PICK N \in Nat : N = Len(x)
  OBVIOUS
<1>2. p \in 1..N /\ p < N /\ \A i \in 1..N : x[i] \in S
  BY <1>1
<1>3. a \in Seq(S) /\ Len(a) = p /\ \A i \in 1..p : a[i] = x[i]
  <2> DEFINE t == SubSeq(x, 1, p)
  <2>1. /\ t \in Seq(S)
        /\ Len(t) = IF 1 <= p THEN p - 1 + 1 ELSE 0
        /\ \A i \in 1 .. p - 1 + 1 : t[i] = x[1 + i - 1]
    <3>1. \A i \in 1..p : x[i] \in S
      BY <1>2
    <3>2. 1 \in Int /\ p \in Int
      BY <1>2
    <3> QED BY <3>1, <3>2, SubSeqProperties
  <2> HIDE DEF t
  <2>2. \A i \in 1..p : i \in 1 .. p - 1 + 1 /\ 1 + i - 1 = i
    BY <1>2
  <2>3. Len(t) = p
    BY <1>2, <2>1
  <2>4. \A i \in 1..p : t[i] = x[i]
    BY <2>1, <2>2
  <2> QED BY <2>1, <2>3, <2>4 DEF t
<1>4. b \in Seq(S) /\ Len(b) = N - p /\ \A i \in 1 .. N - p : b[i] = x[p + i]
  <2> DEFINE t == SubSeq(x, p + 1, N)
  <2>1. /\ t \in Seq(S)
        /\ Len(t) = IF p + 1 <= N THEN N - (p + 1) + 1 ELSE 0
        /\ \A i \in 1 .. N - (p + 1) + 1 : t[i] = x[p + 1 + i - 1]
    <3>1. \A i \in p + 1 .. N : x[i] \in S
      BY <1>2
    <3>2. p + 1 \in Int /\ N \in Int
      BY <1>2
    <3> QED BY <3>1, <3>2, SubSeqProperties
  <2> HIDE DEF t
  <2>2. \A i \in 1 .. N - p : i \in 1 .. N - (p + 1) + 1 /\ p + 1 + i - 1 = p + i
    BY <1>2
  <2>3. Len(t) = N - p
    BY <1>2, <2>1
  <2>4. \A i \in 1 .. N - p : t[i] = x[p + i]
    BY <2>1, <2>2
  <2> QED BY <1>1, <2>1, <2>3, <2>4 DEF t
<1>5. Cat(a, b, c)
  BY DEF Cat
<1> HIDE DEF a, b, c
<1>6. a \in Seq(S) /\ b \in Seq(S)
  BY <1>3, <1>4
<1>7. /\ c \in Seq(S) /\ Len(c) = Len(a) + Len(b)
      /\ \A i \in 1..Len(a) : c[i] = a[i]
      /\ \A i \in 1..Len(b) : c[Len(a) + i] = b[i]
  BY ONLY <1>5, <1>6, Concat
<1>8. Len(c) = N
  BY <1>2, <1>3, <1>4, <1>7
<1>9. ASSUME NEW i \in 1..N PROVE c[i] = x[i]
  <2>1. CASE i <= p
    <3>1. i \in 1..p
      BY <1>2, <2>1
    <3> QED BY <1>3, <1>7, <3>1
  <2>2. CASE ~(i <= p)
    <3> DEFINE m == i - p
    <3>1. m \in 1 .. N - p /\ p + m = i
      BY <1>2, <2>2
    <3> HIDE DEF m
    <3>2. c[p + m] = b[m] /\ b[m] = x[p + m]
      BY <1>3, <1>4, <1>7, <3>1
    <3> QED BY <3>1, <3>2
  <2> QED BY <2>1, <2>2
<1>10. c = x
  BY <1>1, <1>7, <1>8, <1>9, SeqEqual
<1>11. b # <<>>
  BY <1>2, <1>4, EmptySeq
<1> QED BY <1>6, <1>10, <1>11 DEF a, b, c

Sent == [multi : BOOLEAN, rest : Seq(Token)]

LEMMA ReadIs ==
  ASSUME TypeOK, Types, NEW j \in 0..Len(stream), NEW p \in Nat,
         p # 0 => j < Len(stream) /\ p \in 1 .. Len(stream[j + 1].rest) - 1,
         Read(j, p)
  PROVE  /\ buf' \in Seq(Token)
         /\ stream' \in Seq(Sent) /\ Len(stream') = Len(stream) - j
         /\ p = 0 => \A i \in 1..Len(stream') : stream'[i] = stream[j + i]
         /\ p # 0 => /\ stream'[1].multi = stream[j + 1].multi
                     /\ stream'[1].rest # <<>>
                     /\ \A i \in 2..Len(stream') : stream'[i] = stream[j + i]
         /\ p # 0 /\ j = 0 => buf' \o stream'[1].rest = buf \o stream[1].rest
         /\ p = 0 /\ j = 1 => buf' = buf \o stream[1].rest
         /\ \E t \in Seq(Token) : buf' = buf \o t
<1>1. PICK N \in Nat : N = Len(stream)
  BY DEF Types
<1>2. /\ stream \in Seq(Sent) /\ DOMAIN stream = 1..N
      /\ \A i \in 1..N : stream[i] \in Sent
      /\ buf \in Seq(Token)
  <2>1. stream \in Seq(Sent) /\ buf \in Seq(Token)
    BY DEF Types, TypeOK, Sent
  <2> QED BY <1>1, <2>1
<1>3. j \in 0..N /\ j \in Nat
  BY <1>1
<1> DEFINE rest == SubSeq(stream, j + 1, N)
           rests == [i \in 1..j |-> stream[i].rest]
           f == FlattenSeq(rests)
           x == rest[1].rest
           part == IF p = 0 THEN <<>> ELSE SubSeq(x, 1, p)
           left == SubSeq(x, p + 1, Len(x))
<1>4. /\ rest \in Seq(Sent) /\ Len(rest) = N - j
      /\ \A i \in 1 .. N - j : rest[i] = stream[j + i]
  <2> DEFINE t == SubSeq(stream, j + 1, N)
  <2>1. /\ t \in Seq(Sent)
        /\ Len(t) = IF j + 1 <= N THEN N - (j + 1) + 1 ELSE 0
        /\ \A i \in 1 .. N - (j + 1) + 1 : t[i] = stream[j + 1 + i - 1]
    <3>1. \A i \in j + 1 .. N : stream[i] \in Sent
      BY <1>2, <1>3
    <3>2. j + 1 \in Int /\ N \in Int
      BY <1>3
    <3> QED BY <3>1, <3>2, SubSeqProperties
  <2> HIDE DEF t
  <2>2. \A i \in 1 .. N - j : i \in 1 .. N - (j + 1) + 1 /\ j + 1 + i - 1 = j + i
    BY <1>3
  <2>3. Len(t) = N - j
    BY <1>3, <2>1
  <2>4. \A i \in 1 .. N - j : t[i] = stream[j + i]
    BY <2>1, <2>2
  <2> QED BY <2>1, <2>3, <2>4 DEF t
<1>5. rests \in Seq(Seq(Token)) /\ Len(rests) = j
  <2>1. \A i \in 1..j : stream[i].rest \in Seq(Token)
    <3>1. \A i \in 1..j : i \in 1..N
      BY <1>3
    <3> QED BY <1>2, <3>1 DEF Sent
  <2> QED BY <1>3, <2>1
<1>6. f \in Seq(Token)
  BY <1>5, Pieces
<1>7. p # 0 => /\ N - j \in Nat \ {0} /\ x = stream[j + 1].rest /\ x \in Seq(Token)
               /\ rest[1] = stream[j + 1] /\ p \in 1 .. Len(x) - 1
  <2> SUFFICES ASSUME p # 0
               PROVE  /\ N - j \in Nat \ {0} /\ x = stream[j + 1].rest /\ x \in Seq(Token)
                      /\ rest[1] = stream[j + 1] /\ p \in 1 .. Len(x) - 1
    OBVIOUS
  <2>1. j < N /\ N - j \in Nat \ {0} /\ 1 \in 1 .. N - j /\ j + 1 \in 1..N
    BY <1>1, <1>3
  <2>2. rest[1] = stream[j + 1]
    BY <1>4, <2>1
  <2> HIDE DEF rest
  <2>3. x = stream[j + 1].rest
    BY <2>2
  <2>4. x \in Seq(Token)
    BY <1>2, <2>1, <2>3 DEF Sent
  <2> QED BY <2>1, <2>2, <2>3, <2>4
<1>8. /\ buf' = buf \o f \o part
      /\ stream' = IF p = 0 THEN rest ELSE [rest EXCEPT ![1].rest = left]
  BY <1>1 DEF Read
<1> HIDE DEF rest, f, left
<1>9. p # 0 => left \in Seq(Token) /\ left # <<>> /\ part \o left = x
  <2>1. CASE p = 0
    BY <2>1
  <2>2. CASE p # 0
    <3> HIDE DEF x
    <3> QED BY <1>7, <2>2, Cut DEF left
  <2> QED BY <2>1, <2>2
<1>10. part \in Seq(Token)
  <2>1. CASE p = 0
    BY <2>1, EmptySeq
  <2>2. CASE p # 0
    <3> HIDE DEF x
    <3> QED BY <1>7, <2>2, Cut
  <2> QED BY <2>1, <2>2
<1> HIDE DEF part
<1>11. buf \o f \in Seq(Token) /\ (buf \o f) \o part \in Seq(Token)
  BY <1>2, <1>6, <1>10
<1>12. buf' \in Seq(Token)
  BY <1>8, <1>11
<1>13. /\ stream' \in Seq(Sent) /\ Len(stream') = N - j
       /\ p = 0 => \A i \in 1 .. N - j : stream'[i] = stream[j + i]
       /\ p # 0 => /\ stream'[1].multi = stream[j + 1].multi
                   /\ stream'[1].rest = left
                   /\ \A i \in 2 .. N - j : stream'[i] = stream[j + i]
  <2>1. CASE p = 0
    BY <1>4, <1>8, <2>1
  <2>2. CASE p # 0
    <3> DEFINE r1 == [rest[1] EXCEPT !.rest = left]
               M == N - j
               r == [i \in 1..M |-> IF i = 1 THEN r1 ELSE rest[i]]
    <3>1. M \in Nat \ {0} /\ rest[1] \in Sent /\ \A i \in 1..M : rest[i] \in Sent
      BY <1>4, <1>7, <2>2
    <3>2. r1 \in Sent /\ r1.rest = left /\ r1.multi = rest[1].multi
      <4> DEFINE y == rest[1]
      <4>1. y \in Sent /\ left \in Seq(Token)
        BY <1>9, <2>2, <3>1
      <4> HIDE DEF y
      <4>2. LET z == [y EXCEPT !.rest = left]
            IN z \in Sent /\ z.rest = left /\ z.multi = y.multi
        BY <4>1 DEF Sent
      <4> QED BY <4>2 DEF y
    <3>3. stream' = r
      <4>1. DOMAIN rest = 1..M
        BY <1>4, <3>1
      <4> QED BY <1>8, <2>2, <4>1
    <3> HIDE DEF r1, M
    <3>4. r \in Seq(Sent) /\ Len(r) = M
      BY <3>1, <3>2
    <3>5. r[1] = r1 /\ \A i \in 2..M : r[i] = rest[i]
      BY <3>1
    <3> HIDE DEF r
    <3>6. \A i \in 2..M : rest[i] = stream[j + i]
      BY <1>4 DEF M
    <3>7. /\ stream' \in Seq(Sent) /\ Len(stream') = M
          /\ stream'[1].multi = stream[j + 1].multi
          /\ stream'[1].rest = left
          /\ \A i \in 2 .. M : stream'[i] = stream[j + i]
      BY <1>7, <2>2, <3>2, <3>3, <3>4, <3>5, <3>6
    <3> QED BY <2>2, <3>7 DEF M
  <2> QED BY <2>1, <2>2
<1>14. ASSUME p # 0, j = 0 PROVE buf' \o stream'[1].rest = buf \o stream[1].rest
  <2>1. f = <<>>
    BY <1>14, FlattenNone DEF f
  <2>2. buf' = buf \o part
    BY <1>2, <1>8, <2>1, ConcatEmptySeq
  <2>3. x = stream[1].rest
    BY <1>7, <1>14
  <2>4. stream'[1].rest = left
    BY <1>13, <1>14
  <2> HIDE DEF x
  <2>5. part \in Seq(Token) /\ left \in Seq(Token) /\ part \o left = x
    BY <1>9, <1>10, <1>14
  <2>6. buf \in Seq(Token) /\ part \in Seq(Token) /\ left \in Seq(Token)
    BY <1>2, <2>5
  <2>7. (buf \o part) \o left = buf \o (part \o left)
    BY ONLY <2>6, ConcatAssociative
  <2> QED BY <2>2, <2>3, <2>4, <2>5, <2>7
<1>15. ASSUME p = 0, j = 1 PROVE buf' = buf \o stream[1].rest
  <2>1. f = rests[1]
    BY <1>5, <1>15, FlattenOne DEF f
  <2>2. rests[1] = stream[1].rest
    BY <1>15
  <2>3. part = <<>>
    BY <1>15 DEF part
  <2>4. buf' = buf \o f
    BY <1>8, <1>11, <2>3, ConcatEmptySeq
  <2> QED BY <2>1, <2>2, <2>4
<1>16. Len(stream') = Len(stream) - j
  BY <1>1, <1>13
<1>17. /\ p = 0 => \A i \in 1..Len(stream') : stream'[i] = stream[j + i]
       /\ p # 0 => /\ stream'[1].multi = stream[j + 1].multi
                   /\ stream'[1].rest # <<>>
                   /\ \A i \in 2..Len(stream') : stream'[i] = stream[j + i]
  BY <1>9, <1>13
<1>18. stream' \in Seq(Sent)
  BY <1>13
<1>19. \E t \in Seq(Token) : buf' = buf \o t
  <2>1. buf \in Seq(Token) /\ f \in Seq(Token) /\ part \in Seq(Token)
    BY <1>2, <1>6, <1>10
  <2>2. (buf \o f) \o part = buf \o (f \o part) /\ f \o part \in Seq(Token)
    BY ONLY <2>1, ConcatAssociative, SMTT(30)
  <2> QED BY <1>8, <2>2
<1> QED BY <1>12, <1>14, <1>15, <1>16, <1>17, <1>18, <1>19


-----------------------------------------------------------------------------
(* Types. *)

ParserTypes ==
  /\ buf \in Seq(Token)
  /\ argv \in Seq(Seq(Token) \cup {Junk})
  /\ cap \in Nat /\ multi_bulk_len \in Nat /\ bulk_len \in Nat \cup {-1}
  /\ pos \in Nat /\ (pc = "bulk" => pos <= Len(buf))
  /\ pc \in {"idle", "loop", "bulk", "exec", "wild"}
  /\ pc = "bulk" /\ multi_bulk_len = 0 => argv # <<>>

InputTypes ==
  /\ stream \in Seq(Sent) /\ sent \in Seq(Commands \cup {<<>>}) /\ whole \in Nat
  /\ whole + Len(stream) = Len(sent)

LEMMA TypesAre == TypeOK /\ Types <=> ParserTypes /\ InputTypes
<1>1. ASSUME TypeOK, Types PROVE ParserTypes /\ InputTypes
  BY <1>1 DEF TypeOK, Types, ParserTypes, InputTypes, Sent
<1>2. ASSUME ParserTypes, InputTypes PROVE TypeOK /\ Types
  <2>1. \A i \in DOMAIN argv : argv[i] = Junk \/ argv[i] \in Seq(Token)
    <3>1. PICK n \in Nat : n = Len(argv) /\ DOMAIN argv = 1..n
      BY <1>2 DEF ParserTypes
    <3>2. \A i \in 1..n : argv[i] \in Seq(Token) \cup {Junk}
      BY <1>2, <3>1 DEF ParserTypes
    <3> QED BY <3>1, <3>2
  <2> QED BY <1>2, <2>1 DEF TypeOK, Types, ParserTypes, InputTypes, Sent
<1> QED BY <1>1, <1>2

LEMMA SubscriberTypes ==
  ASSUME ParserTypes, InputTypes, Subscriber
  PROVE  ParserTypes' /\ InputTypes'
<1>1. \A k \in Commands : /\ k \in Args /\ Multi(k) \in Seq(Token)
                          /\ \A t \in Inline(k) : t \in Seq(Token)
  BY CommandsAre, MultiIs, InlineIs
<1>2. /\ CR \in Token /\ LF \in Token /\ Quote \in Token
      /\ Star(-1) \in Token /\ Star(0) \in Token /\ Star(1) \in Token /\ Dollar(-1) \in Token
  BY TokenIs
<1>3. /\ <<Star(-1), CR, LF>> \in Seq(Token) /\ <<Star(0), CR, LF>> \in Seq(Token)
      /\ <<Star(1), CR, LF, Dollar(-1), CR, LF>> \in Seq(Token)
      /\ <<Quote, CR, LF>> \in Seq(Token)
  <2>1. \A a, b, c, d, e, g \in Token : <<a, b, c>> \in Seq(Token) /\ <<a, b, c, d, e, g>> \in Seq(Token)
    OBVIOUS
  <2> QED BY <1>2, <2>1
<1>4. \E k \in Commands \cup {<<>>}, m \in BOOLEAN, t \in Seq(Token) : Send(k, m, t)
  BY <1>1, <1>3 DEF Subscriber
<1>5. PICK k \in Commands \cup {<<>>}, m \in BOOLEAN, t \in Seq(Token) : Send(k, m, t)
  BY <1>4
<1>6. /\ stream' = Append(stream, [multi |-> m, rest |-> t]) /\ sent' = Append(sent, k)
      /\ UNCHANGED <<whole, parser>>
  BY <1>5 DEF Send
<1>7. ParserTypes'
  BY <1>6 DEF ParserTypes, parser
<1>8. InputTypes'
  <2>1. [multi |-> m, rest |-> t] \in Sent
    BY DEF Sent
  <2>2. stream \in Seq(Sent) /\ sent \in Seq(Commands \cup {<<>>})
    BY DEF InputTypes
  <2>3. stream' \in Seq(Sent) /\ Len(stream') = Len(stream) + 1
    BY <1>6, <2>1, <2>2
  <2>4. sent' \in Seq(Commands \cup {<<>>}) /\ Len(sent') = Len(sent) + 1
    BY <1>6, <2>2
  <2>5. Len(stream) \in Nat /\ Len(sent) \in Nat /\ whole' = whole
    BY <1>6, <2>2
  <2>6. whole \in Nat /\ whole + Len(stream) = Len(sent)
    BY DEF InputTypes
  <2>7. whole' \in Nat /\ whole' + Len(stream') = Len(sent')
    <3>1. \A w, a, b : w \in Nat /\ a \in Nat /\ w + a = b => w + (a + 1) = b + 1
      OBVIOUS
    <3>2. whole + (Len(stream) + 1) = Len(sent) + 1
      BY <2>5, <2>6, <3>1
    <3> QED BY <2>3, <2>4, <2>5, <2>6, <3>2
  <2> QED BY <2>3, <2>4, <2>7 DEF InputTypes
<1> QED BY <1>7, <1>8

LEMMA ReadSomeIs ==
  ASSUME ReadSome, InputTypes
  PROVE  \E j \in 0..Len(stream), p \in Nat :
           /\ p # 0 => j < Len(stream) /\ p \in 1 .. Len(stream[j + 1].rest) - 1
           /\ Read(j, p)
<1>1. PICK j \in 0..Len(stream) :
        \/ Read(j, 0)
        \/ j < Len(stream) /\ \E p \in 1 .. Len(stream[j + 1].rest) - 1 : Read(j, p)
  BY DEF ReadSome
<1>2. CASE Read(j, 0)
  BY <1>1, <1>2
<1>3. CASE j < Len(stream) /\ \E p \in 1 .. Len(stream[j + 1].rest) - 1 : Read(j, p)
  <2>1. PICK p \in 1 .. Len(stream[j + 1].rest) - 1 : Read(j, p)
    BY <1>3
  <2>2. p \in Nat
    OBVIOUS
  <2> QED BY <1>3, <2>1, <2>2
<1> QED BY <1>1, <1>2, <1>3

LEMMA ReadTypes ==
  ASSUME ParserTypes, InputTypes, ReadSome
  PROVE  ParserTypes' /\ InputTypes'
<1>1. PICK j \in 0..Len(stream), p \in Nat :
        /\ p # 0 => j < Len(stream) /\ p \in 1 .. Len(stream[j + 1].rest) - 1
        /\ Read(j, p)
  BY ReadSomeIs
<1>2. /\ buf' \in Seq(Token)
      /\ stream' \in Seq(Sent) /\ Len(stream') = Len(stream) - j
  BY <1>1, TypesAre, ReadIs
<1>3. /\ pc' = "loop" /\ whole' = whole + j
      /\ UNCHANGED <<sent, argv, cap, multi_bulk_len, bulk_len, pos>>
  BY <1>1 DEF Read
<1>4. ParserTypes'
  BY <1>2, <1>3 DEF ParserTypes
<1>5. Len(stream) \in Nat /\ j \in Nat
  BY <1>1 DEF InputTypes
<1>6. InputTypes'
  <2>1. whole \in Nat /\ whole + Len(stream) = Len(sent)
    BY DEF InputTypes
  <2>2. whole' + Len(stream') = Len(sent') /\ whole' \in Nat
    <3>1. (whole + j) + (Len(stream) - j) = Len(sent) /\ whole + j \in Nat
      BY <1>5, <2>1
    <3> QED BY <1>2, <1>3, <3>1
  <2> QED BY <1>2, <1>3, <2>2 DEF InputTypes
<1> QED BY <1>4, <1>6

LEMMA NumberIs ==
  ASSUME buf \in Seq(Token), NEW from \in Nat, HasLine(from)
  PROVE  /\ Number("star", from) \in Int /\ Number("dollar", from) \in Int
         /\ FirstCR(from) + 1 \in Nat /\ FirstCR(from) + 1 <= Len(buf)
<1>1. PICK N \in Nat : N = Len(buf) /\ DOMAIN buf = 1..N
  OBVIOUS
<1>2. FirstCR(from) \in 1 .. N - 1
  BY <1>1 DEF HasLine
<1>3. FirstCR(from) \in from + 1 .. N
  <2>1. FirstCR(from) # 0
    BY <1>2
  <2> QED BY <1>1, <2>1, FirstCRIs

<1>4. from + 1 \in 1..N
  BY <1>3
<1>5. buf[from + 1] \in Token
  BY <1>1, <1>4
<1>6. \A t \in Token : t[1] = "star" \/ t[1] = "dollar" => t[2] \in Int
  BY TokenIs
<1>7. Number("star", from) \in Int /\ Number("dollar", from) \in Int
  BY <1>5, <1>6 DEF Number
<1> QED BY <1>1, <1>2, <1>7


LEMMA ParseTypes ==
  ASSUME ParserTypes, InputTypes, Parse
  PROVE  ParserTypes' /\ InputTypes'
<1>1. UNCHANGED input
  BY DEF Parse, InlineWait, InlineLine, MultiWait, MultiEmpty, MultiHeader, MultiResume,
         BulkLen, BulkError, BulkArg, BulkTooBig, MultiCut, MultiDone, NothingToExecute, Execute,
         ExecuteJunk
<1>2. InputTypes'
  BY <1>1 DEF InputTypes, input
<1>3. buf \in Seq(Token) /\ Len(buf) \in Nat /\ pos \in Nat
  BY DEF ParserTypes
<1>4. /\ Drop(pos) \in Seq(Token)
      /\ \A n \in Nat : Drop(n) \in Seq(Token)
  BY <1>3, DropIs
<1>5. CASE InlineWait
  BY <1>2, <1>5 DEF InlineWait, ParserTypes
<1>6. CASE InlineLine
  <2>1. LF \in Range(buf) /\ pc = "loop"
    BY <1>6 DEF InlineLine, InLoop
  <2>2. Line \in Seq(Token)
    BY <1>3, <2>1, LineIs
  <2>3. Len(Line) + 2 \in Nat
    BY <2>2
  <2>4. SplitArgs(Line) \in Seq(Seq(Token))
    BY <2>2, SplitType
  <2>5. /\ argv' = SplitArgs(Line) /\ cap' = Len(argv') /\ buf' = Drop(Len(Line) + 2)
        /\ UNCHANGED <<multi_bulk_len, bulk_len, pos, pc>>
    BY <1>6 DEF InlineLine
  <2>6. buf' \in Seq(Token)
    BY <1>4, <2>3, <2>5
  <2> DEFINE a == SplitArgs(Line)
  <2>7. argv' = a /\ a \in Seq(Seq(Token))
    BY <2>4, <2>5
  <2> HIDE DEF a
  <2>8. a \in Seq(Seq(Token) \cup {Junk}) /\ Len(a) \in Nat
    BY <2>7
  <2>9. argv' \in Seq(Seq(Token) \cup {Junk}) /\ cap' \in Nat
    BY <2>5, <2>7, <2>8
  <2> QED BY <1>2, <2>1, <2>5, <2>6, <2>9 DEF ParserTypes
<1>7. CASE MultiWait
  BY <1>2, <1>7 DEF MultiWait, ParserTypes
<1>8. CASE MultiEmpty
  <2>1. FirstCR(0) + 1 \in Nat
    BY <1>3, <1>8, NumberIs DEF MultiEmpty
  <2>2. buf' \in Seq(Token)
    BY <1>4, <1>8, <2>1 DEF MultiEmpty
  <2> QED BY <1>2, <1>8, <2>2 DEF MultiEmpty, InLoop, ParserTypes
<1>9. CASE MultiHeader
  <2>1. /\ Number("star", 0) \in Nat \ {0}
        /\ FirstCR(0) + 1 \in Nat /\ FirstCR(0) + 1 <= Len(buf)
    BY <1>3, <1>9, NumberIs DEF MultiHeader
  <2>2. /\ multi_bulk_len' = Number("star", 0) /\ cap' = multi_bulk_len'
        /\ argv' = [i \in DOMAIN argv |-> Junk] /\ pos' = FirstCR(0) + 1
        /\ pc' = "bulk" /\ UNCHANGED <<buf, bulk_len>>
    BY <1>9 DEF MultiHeader
  <2>3. argv' \in Seq(Seq(Token) \cup {Junk})
    <3>1. PICK n \in Nat : DOMAIN argv = 1..n
      BY DEF ParserTypes
    <3> QED BY <2>2, <3>1
  <2> QED BY <1>2, <2>1, <2>2, <2>3 DEF ParserTypes
<1>10. CASE MultiResume
  BY <1>2, <1>3, <1>10 DEF MultiResume, ParserTypes
<1>11. CASE BulkLen
  <2>1. /\ Number("dollar", pos) \in Nat
        /\ FirstCR(pos) + 1 \in Nat /\ FirstCR(pos) + 1 <= Len(buf)
    BY <1>3, <1>11, NumberIs DEF BulkLen
  <2>2. /\ bulk_len' = Number("dollar", pos) /\ pos' = FirstCR(pos) + 1
        /\ UNCHANGED <<buf, argv, cap, multi_bulk_len, pc>>
    BY <1>11 DEF BulkLen
  <2> QED BY <1>2, <2>1, <2>2 DEF ParserTypes
<1>12. CASE BulkError
  BY <1>2, <1>4, <1>12 DEF BulkError, ParserTypes
<1>13. CASE BulkArg
  <2>1. /\ pc = "bulk" /\ multi_bulk_len > 0 /\ bulk_len # -1 /\ Len(buf) - pos >= bulk_len + 2
        /\ argv' = Append(argv, SubSeq(buf, pos + 1, pos + bulk_len))
        /\ pos' = pos + bulk_len + 2 /\ bulk_len' = -1
        /\ multi_bulk_len' = multi_bulk_len - 1
        /\ pc' = (IF Len(argv') > cap THEN "wild" ELSE pc)
        /\ UNCHANGED <<buf, cap>>
    BY <1>13 DEF BulkArg, InBulk, Enough
  <2>2. bulk_len \in Nat /\ multi_bulk_len \in Nat /\ cap \in Nat
    BY <2>1 DEF ParserTypes
  <2>3. pos' \in Nat /\ pos' <= Len(buf') /\ multi_bulk_len' \in Nat
    BY <1>3, <2>1, <2>2
  <2> DEFINE b == SubSeq(buf, pos + 1, pos + bulk_len)
  <2>4. b \in Seq(Token)
    <3>1. PICK N \in Nat : N = Len(buf) /\ DOMAIN buf = 1..N
      BY <1>3
    <3>2. \A i \in 1..N : buf[i] \in Token
      BY <1>3, <3>1
    <3>3. N - pos >= bulk_len + 2
      BY <2>1, <3>1
    <3>4. \A i \in pos + 1 .. pos + bulk_len : i \in 1..N
      BY <1>3, <2>2, <3>3
    <3>5. \A i \in pos + 1 .. pos + bulk_len : buf[i] \in Token
      BY <3>2, <3>4
    <3>6. pos + 1 \in Int /\ pos + bulk_len \in Int
      BY <1>3, <2>2
    <3> QED BY <3>5, <3>6, SubSeqProperties
  <2>5. argv' = Append(argv, b)
    BY <2>1
  <2> HIDE DEF b
  <2>6. argv \in Seq(Seq(Token) \cup {Junk}) /\ b \in Seq(Token) \cup {Junk}
    BY <2>4 DEF ParserTypes
  <2>7. argv' \in Seq(Seq(Token) \cup {Junk}) /\ argv' # <<>>
    BY <2>5, <2>6, AppendProperties
  <2>8. pc' \in {"bulk", "wild"}
    BY <2>1
  <2>9. buf' \in Seq(Token) /\ cap' \in Nat /\ bulk_len' \in Nat \cup {-1}
    BY <1>3, <2>1, <2>2
  <2>10. ParserTypes'
    BY <2>3, <2>7, <2>8, <2>9 DEF ParserTypes
  <2> QED BY <1>2, <2>10
<1>14. CASE MultiCut
  BY <1>2, <1>4, <1>14 DEF MultiCut, ParserTypes
<1>19. CASE BulkTooBig
  BY <1>2, <1>19 DEF BulkTooBig, ParserTypes
<1>15. CASE MultiDone
  BY <1>2, <1>4, <1>15 DEF MultiDone, ParserTypes
<1>16. CASE NothingToExecute
  BY <1>2, <1>16 DEF NothingToExecute, ParserTypes
<1>17. CASE Execute
  <2>1. <<>> \in Seq(Seq(Token) \cup {Junk})
    BY EmptySeq
  <2> QED BY <1>2, <1>17, <2>1 DEF Execute, ParserTypes
<1>18. CASE ExecuteJunk
  BY <1>2, <1>18 DEF ExecuteJunk, ParserTypes
<1> QED BY <1>2, <1>5, <1>6, <1>7, <1>8, <1>9, <1>10, <1>11, <1>12, <1>13, <1>14,
           <1>15, <1>16, <1>17, <1>18, <1>19 DEF Parse

LEMMA TypesStep ==
  ASSUME TypeOK, Types, [Next]_vars
  PROVE  TypeOK' /\ Types'
<1>1. ParserTypes /\ InputTypes
  BY TypesAre
<1>2. ParserTypes' /\ InputTypes'
  <2>1. CASE Subscriber
    BY <1>1, <2>1, SubscriberTypes
  <2>2. CASE ReadSome
    BY <1>1, <2>2, ReadTypes
  <2>3. CASE Parse
    BY <1>1, <2>3, ParseTypes
  <2>4. CASE UNCHANGED vars
    BY <1>1, <2>4 DEF ParserTypes, InputTypes, vars, input, parser
  <2> QED BY <2>1, <2>2, <2>3, <2>4 DEF Next
<1>3. ParserTypes' /\ InputTypes' => TypeOK' /\ Types'
  BY TypesAre, PTL
<1> QED BY <1>2, <1>3

LEMMA TypesInit ==
  ASSUME Init
  PROVE  TypeOK /\ Types
<1>1. InputTypes
  BY EmptySeq DEF Init, InputTypes
<1>2. argv \in Seq(Seq(Token) \cup {Junk})
  <2>1. <<Junk>> \in Seq(Seq(Token) \cup {Junk}) /\ <<>> \in Seq(Seq(Token) \cup {Junk})
    <3> DEFINE S == Seq(Token) \cup {Junk}
    <3>1. Junk \in S
      OBVIOUS
    <3> HIDE DEF S
    <3>2. \A x \in S : <<x>> \in Seq(S) /\ <<>> \in Seq(S)
      OBVIOUS
    <3> QED BY <3>1, <3>2 DEF S
  <2> QED BY <2>1 DEF Init
<1>3. ParserTypes
  BY <1>2, EmptySeq DEF Init, ParserTypes
<1> QED BY <1>1, <1>3, TypesAre

(***************************************************************************)
(* The parser's state has its types: the cursor never leaves the buffer,   *)
(* and every command sent is on the stream or was read whole.              *)
(***************************************************************************)
THEOREM TypeCorrect == Spec => []TypeOK
<1>1. Init => TypeOK /\ Types
  BY TypesInit
<1>2. TypeOK /\ Types /\ [Next]_vars => TypeOK' /\ Types'
  BY TypesStep
<1> QED BY <1>1, <1>2, PTL DEF Spec

-----------------------------------------------------------------------------
(* A bad multibulk length at the head of the buffer. *)

LEMMA BadHeadStays ==
  ASSUME TypeOK, Types, BadHead, [Next]_vars
  PROVE  BadHead' /\ executed' = executed
<1>1. ParserTypes /\ InputTypes
  BY TypesAre
<1>2. PICK N \in Nat : N = Len(buf) /\ N > 2 /\ DOMAIN buf = 1..N
  BY <1>1 DEF BadHead, ParserTypes
<1>3. /\ buf[1] = Star(-1) /\ buf[2] = CR
      /\ multi_bulk_len = 0 /\ argv = <<>> /\ buf \in Seq(Token) /\ buf # <<>>
  BY <1>1, <1>2, EmptySeq DEF BadHead, ParserTypes
<1>4. buf[1][1] = "star" /\ buf[1][2] = -1
  BY <1>3 DEF Star
<1>5. pc # "bulk"
  BY <1>1, <1>3 DEF ParserTypes
<1>6. FirstCR(0) = 2 /\ HasLine(0) /\ Number("star", 0) = -1 /\ BadHeader
  <2>1. buf[1] # CR
    BY <1>4 DEF CR
  <2>2. 2 \in 0 + 1 .. Len(buf) /\ 0 \in Nat
    BY <1>2
  <2>3. FirstCR(0) # 0 /\ FirstCR(0) <= 2
    BY <1>3, <2>2, FirstCRIs
  <2>4. FirstCR(0) \in 0 + 1 .. Len(buf) /\ buf[FirstCR(0)] = CR
    BY <1>3, <2>2, <2>3, FirstCRIs
  <2>5. FirstCR(0) \in 1..2
    BY <1>2, <2>3, <2>4
  <2>6. FirstCR(0) = 2
    BY <2>1, <2>4, <2>5
  <2> QED BY <1>2, <1>4, <2>6 DEF HasLine, Number, BadHeader
<1>7. CASE Subscriber
  BY <1>7 DEF Subscriber, Send, BadHead, parser, ghosts
<1>8. CASE ReadSome
  <2>1. PICK j \in 0..Len(stream), p \in Nat :
          /\ p # 0 => j < Len(stream) /\ p \in 1 .. Len(stream[j + 1].rest) - 1
          /\ Read(j, p)
    BY <1>1, <1>8, ReadSomeIs
  <2>2. buf' \in Seq(Token) /\ \E t \in Seq(Token) : buf' = buf \o t
    BY <2>1, <1>1, TypesAre, ReadIs
  <2>3. PICK t \in Seq(Token) : buf' = buf \o t
    BY <2>2
  <2>4. Cat(buf, t, buf') /\ buf \in Seq(Token) /\ t \in Seq(Token)
    BY <1>3, <2>3 DEF Cat
  <2>5. /\ Len(buf') = Len(buf) + Len(t) /\ Len(t) \in Nat
        /\ \A i \in 1..Len(buf) : buf'[i] = buf[i]
    BY ONLY <2>4, Concat
  <2>6. Len(buf') > 2 /\ buf'[1] = Star(-1) /\ buf'[2] = CR
    BY <1>2, <1>3, <2>5
  <2>7. UNCHANGED <<multi_bulk_len, argv, executed>>
    BY <2>1 DEF Read
  <2> QED BY <1>3, <2>6, <2>7 DEF BadHead
<1>9. CASE Parse
  <2>1. ~InLoop(FALSE) /\ ~InBulk
    BY <1>4, <1>5 DEF InLoop, InBulk
  <2>2. UNCHANGED <<buf, multi_bulk_len, argv, executed>>
    <3>1. ~InlineWait /\ ~InlineLine /\ ~BulkLen /\ ~BulkError /\ ~BulkArg /\ ~BulkTooBig /\ ~MultiCut
      BY <2>1 DEF InlineWait, InlineLine, BulkLen, BulkError, BulkArg, BulkTooBig, MultiCut
    <3>2. ~MultiEmpty /\ ~MultiHeader /\ ~MultiResume /\ ~MultiDone
      <4> DEFINE n == Number("star", 0)
      <4>1. ~(n = 0) /\ ~(n > 0)
        BY <1>6
      <4> HIDE DEF n
      <4>2. ~MultiEmpty /\ ~MultiHeader
        BY <4>1 DEF MultiEmpty, MultiHeader, n
      <4>3. ~MultiResume /\ ~MultiDone
        BY <1>3, <1>5 DEF MultiResume, MultiDone
      <4> QED BY <4>2, <4>3

    <3>3. ~Execute
      BY <1>3 DEF Execute
    <3>4. ~ExecuteJunk
      <4>1. Range(argv) = {}
        BY <1>3, EmptySeq DEF Range
      <4> QED BY <4>1 DEF ExecuteJunk
    <3>5. MultiWait \/ NothingToExecute
      BY <1>9, <3>1, <3>2, <3>3, <3>4 DEF Parse
    <3> QED BY <3>5 DEF MultiWait, NothingToExecute, ghosts

  <2> QED BY <2>2 DEF BadHead
<1>10. CASE UNCHANGED vars
  BY <1>10 DEF vars, parser, ghosts, BadHead
<1> QED BY <1>7, <1>8, <1>9, <1>10 DEF Next

(***************************************************************************)
(* A connection whose multibulk length is bad is stuck for good: whatever  *)
(* the subscriber sends, and however it is read, the header stays where it *)
(* is and nothing is executed any more.                                    *)
(***************************************************************************)
THEOREM StuckForGood == Spec => Wedged
<1>1. Init => TypeOK /\ Types
  BY TypesInit
<1>2. TypeOK /\ Types /\ [Next]_vars => TypeOK' /\ Types'
  BY TypesStep
<1>3. TypeOK /\ Types /\ [Next]_vars => (BadHead => BadHead' /\ executed' = executed)
  BY BadHeadStays
<1> QED BY <1>1, <1>2, <1>3, PTL DEF Spec, Wedged


-----------------------------------------------------------------------------
(* The steps of an orderly run. *)

OrderlyInv == Waiting \/ Handling

LEMMA OrderlyBefore ==
  ASSUME TypeOK, Types, [Next]_vars, Orderly'
  PROVE  Orderly
<1>1. ParserTypes /\ InputTypes
  BY TypesAre
<1>2. \/ sent' = sent
      \/ sent \in Seq(Commands \cup {<<>>}) /\ \E k \in Commands \cup {<<>>} : sent' = Append(sent, k)
  <2>1. CASE Subscriber
    <3>1. sent \in Seq(Commands \cup {<<>>})
      BY <1>1 DEF InputTypes
    <3> QED BY <2>1, <3>1 DEF Subscriber, Send
  <2>2. CASE ReadSome
    BY <2>2 DEF ReadSome, Read
  <2>3. CASE Parse
    BY <2>3 DEF Parse, InlineWait, InlineLine, MultiWait, MultiEmpty, MultiHeader, MultiResume,
         BulkLen, BulkError, BulkArg, BulkTooBig, MultiCut, MultiDone, NothingToExecute, Execute,
         ExecuteJunk, input
  <2>4. CASE UNCHANGED vars
    BY <2>4 DEF vars, input
  <2> QED BY <2>1, <2>2, <2>3, <2>4 DEF Next
<1>3. WellFormed' => WellFormed
  <2>1. CASE sent' = sent
    BY <2>1 DEF WellFormed
  <2>2. CASE \E k \in Commands \cup {<<>>} : sent' = Append(sent, k)
    <3>1. PICK k \in Commands \cup {<<>>} : sent' = Append(sent, k)
      BY <2>2
    <3>2. sent \in Seq(Commands \cup {<<>>})
      BY <1>1 DEF InputTypes
    <3>3. PICK n \in Nat : n = Len(sent) /\ DOMAIN sent = 1..n
      BY <3>2
    <3>4. DOMAIN sent' = 1..n + 1 /\ \A i \in 1..n : sent'[i] = sent[i]
      BY <3>1, <3>2, <3>3, AppendProperties
    <3>5. \A i \in 1..n : i \in 1..n + 1
      BY <3>3
    <3> QED BY <3>3, <3>4, <3>5 DEF WellFormed, Range
  <2> QED BY <1>2, <2>1, <2>2
<1>4. (~joined' => ~joined) /\ (~cutMulti' => ~cutMulti) /\ unset' = unset
  <2>1. CASE Subscriber
    <3>1. UNCHANGED <<joined, cutMulti, unset>>
      BY <2>1 DEF Subscriber, Send, ghosts
    <3> QED BY <3>1, Zenon
  <2>2. CASE ReadSome
    BY <2>2 DEF ReadSome, Read
  <2>3. CASE Parse
    <3>1. UNCHANGED <<joined, cutMulti, unset>>
      BY <2>3 DEF Parse, InlineWait, InlineLine, MultiWait, MultiEmpty, MultiHeader,
         MultiResume, BulkLen, BulkError, BulkArg, BulkTooBig, MultiCut, MultiDone, NothingToExecute,
         Execute, ExecuteJunk, ghosts
    <3> QED BY <3>1, Zenon

  <2>4. CASE UNCHANGED vars
    BY <2>4 DEF vars, ghosts
  <2> QED BY <2>1, <2>2, <2>3, <2>4 DEF Next
<1> QED BY <1>3, <1>4 DEF Orderly

(* Another command sent. *)
LEMMA OrderlySend ==
  ASSUME TypeOK, Types, OrderlyInv, Subscriber, WellFormed'
  PROVE  OrderlyInv'
<1>1. InputTypes
  BY TypesAre
<1>2. PICK n \in Nat, N \in Nat :
        /\ n = Len(stream) /\ N = Len(sent) /\ whole + n = N /\ whole \in Nat
        /\ stream \in Seq(Sent) /\ sent \in Seq(Commands \cup {<<>>})
  <2>1. Len(stream) \in Nat /\ Len(sent) \in Nat
    BY <1>1 DEF InputTypes
  <2> QED BY <1>1, <2>1 DEF InputTypes
<1>3. PICK k \in Commands, m \in BOOLEAN, t \in Seq(Token) : Form(k, m, t) /\ Send(k, m, t)
  <2>1. ASSUME NEW m, NEW t, Send(<<>>, m, t) PROVE FALSE
    <3>1. sent' = Append(sent, <<>>)
      BY <2>1 DEF Send
    <3>2. DOMAIN sent' = 1..N + 1 /\ sent'[N + 1] = <<>>
      BY <1>2, <3>1, AppendProperties
    <3>3. N + 1 \in 1..N + 1
      BY <1>2
    <3> QED BY <3>2, <3>3 DEF WellFormed, Range
  <2>2. PICK k \in Commands : Send(k, TRUE, Multi(k)) \/ \E t \in Inline(k) : Send(k, FALSE, t)
    BY <2>1 DEF Subscriber
  <2>3. Form(k, TRUE, Multi(k)) /\ \A t \in Inline(k) : Form(k, FALSE, t)
    BY DEF Form
  <2>4. Multi(k) \in Seq(Token) /\ \A t \in Inline(k) : t \in Seq(Token)
    BY <2>3, FormIs
  <2> QED BY <2>2, <2>3, <2>4
<1> DEFINE r == [multi |-> m, rest |-> t]
<1>4. /\ stream' = Append(stream, r) /\ sent' = Append(sent, k)
      /\ UNCHANGED <<whole, parser, ghosts>>
  BY <1>3 DEF Send
<1>5. t \in Seq(Token) /\ t # <<>>
  BY <1>3, FormIs
<1>6. r \in Sent /\ r.multi = m /\ r.rest = t
  BY <1>5 DEF Sent
<1> HIDE DEF r
<1>7. /\ stream' \in Seq(Sent) /\ Len(stream') = n + 1 /\ stream'[n + 1] = r
      /\ \A i \in 1..n : stream'[i] = stream[i]
  BY <1>2, <1>4, <1>6, AppendProperties
<1>8. sent'[N + 1] = k /\ \A i \in 1..N : sent'[i] = sent[i]
  <2>1. k \in Commands \cup {<<>>}
    OBVIOUS
  <2> QED BY <1>2, <1>4, <2>1, AppendProperties
<1>9. ASSUME NEW from \in {1, 2}, Fresh(from) PROVE Fresh(from)'
  <2> SUFFICES ASSUME NEW i \in from..n + 1
               PROVE  Form(sent'[whole + i], stream'[i].multi, stream'[i].rest)
    BY <1>4, <1>7 DEF Fresh, Form
  <2>1. CASE i = n + 1
    <3>1. whole + i = N + 1
      BY <1>2, <2>1
    <3> QED BY <1>3, <1>6, <1>7, <1>8, <2>1, <3>1
  <2>2. CASE i # n + 1
    <3>1. i \in from..n /\ i \in 1..n /\ whole + i \in 1..N
      BY <1>2, <2>2
    <3>2. Form(sent[whole + i], stream[i].multi, stream[i].rest)
      BY <1>2, <1>9, <3>1 DEF Fresh
    <3> QED BY <1>7, <1>8, <3>1, <3>2
  <2> QED BY <2>1, <2>2
<1>10. /\ UNCHANGED <<buf, argv, cap, multi_bulk_len, bulk_len, pos, pc, executed, whole>>
       /\ \A i \in 1..whole : sent'[i] = sent[i]
  <2>1. \A i \in 1..whole : i \in 1..N
    BY <1>2
  <2> QED BY <1>4, <1>8, <2>1 DEF parser, ghosts
<1>11. stream' # <<>>
  BY <1>2, <1>7, EmptySeq
<1>12. CASE Waiting
  <2>1. Fresh(2)'
    BY <1>9, <1>12 DEF Waiting
  <2>2. Complete' = Complete
    BY <1>10 DEF Complete
  <2>3. executed' = Complete' /\ pc' \in {"idle", "loop", "exec"} /\ AtRest'
    BY <1>10, <1>12, <2>2 DEF Waiting, AtRest
  <2>4. CASE stream = <<>>
    <3>1. n = 0 /\ N + 1 = whole + 1 /\ buf = <<>>
      BY <1>2, <1>12, <2>4, EmptySeq DEF Waiting
    <3>2. stream'[1] = r /\ sent'[whole + 1] = k
      BY <1>7, <1>8, <3>1
    <3>3. buf' \o t = t /\ buf' = <<>>
      BY <1>5, <1>10, <3>1, ConcatEmptySeq
    <3>4. Form(sent'[whole' + 1], stream'[1].multi, buf' \o stream'[1].rest)
      BY <1>3, <1>6, <1>10, <3>2, <3>3
    <3> QED BY <1>5, <1>6, <1>11, <2>1, <2>3, <3>2, <3>3, <3>4 DEF Waiting, Form, OrderlyInv
  <2>5. CASE stream # <<>>
    <3>1. 1 \in 1..n /\ whole + 1 \in 1..N
      BY <1>2, <2>5, EmptySeq
    <3>2. stream'[1] = stream[1] /\ sent'[whole + 1] = sent[whole + 1]
      BY <1>7, <1>8, <3>1
    <3>3. /\ Form(sent'[whole' + 1], stream'[1].multi, buf' \o stream'[1].rest)
          /\ stream'[1].rest # <<>>
          /\ stream'[1].multi => buf' = <<>>
      BY <1>10, <1>12, <2>5, <3>2 DEF Waiting
    <3> QED BY <1>11, <2>1, <2>3, <3>3 DEF Waiting, Form, OrderlyInv
  <2> QED BY <2>4, <2>5
<1>13. CASE Handling
  <2>1. Fresh(1)'
    BY <1>9, <1>13 DEF Handling
  <2>2. whole \in 1..whole /\ whole - 1 \in Nat
    BY <1>2, <1>13 DEF Handling
  <2>3. sent'[whole'] = sent[whole]
    BY <1>10, <2>2
  <2>4. \A i \in 1..whole - 1 : i \in 1..whole
    BY <1>2
  <2>5. [i \in 1..whole - 1 |-> Arguments(sent[i])]' = [i \in 1..whole - 1 |-> Arguments(sent[i])]
    BY <1>10, <2>4
  <2>6. whole' > 0 /\ sent'[whole'] \in Commands /\ executed' = [i \in 1..whole' - 1 |-> Arguments(sent'[i])]
    BY <1>10, <1>13, <2>3, <2>5 DEF Handling
  <2>7. InArguments(sent[whole]) => InArguments(sent[whole])'
    BY <1>10, <2>3 DEF InArguments
  <2>8. LET c == sent'[whole'] IN
          \/ pc' = "loop" /\ AtRest' /\ buf' \in Inline(c) \cup {Multi(c)}
          \/ InArguments(sent[whole])'
          \/ /\ pc' = "loop" /\ buf' = <<>> /\ argv' = Arguments(c)
             /\ multi_bulk_len' = 0 /\ bulk_len' = -1
    BY <1>10, <1>13, <2>3, <2>7 DEF Handling, AtRest
  <2> QED BY <2>1, <2>6, <2>8 DEF Handling, OrderlyInv
<1> QED BY <1>12, <1>13 DEF OrderlyInv


(* A read that joins no commands and cuts no multibulk command. *)
LEMMA OrderlyRead ==
  ASSUME TypeOK, Types, OrderlyInv, ReadSome, ~joined', ~cutMulti'
  PROVE  OrderlyInv'
<1>1. ParserTypes /\ InputTypes
  BY TypesAre
<1>2. PICK j \in 0..Len(stream), p \in Nat :
        /\ p # 0 => j < Len(stream) /\ p \in 1 .. Len(stream[j + 1].rest) - 1
        /\ Read(j, p)
  BY <1>1, ReadSomeIs
<1>3. PICK n \in Nat : n = Len(stream) /\ stream \in Seq(Sent) /\ whole \in Nat
  BY <1>1 DEF InputTypes
<1>4. /\ buf' \in Seq(Token)
      /\ stream' \in Seq(Sent) /\ Len(stream') = n - j
      /\ p = 0 => \A i \in 1..Len(stream') : stream'[i] = stream[j + i]
      /\ p # 0 => /\ stream'[1].multi = stream[j + 1].multi
                  /\ stream'[1].rest # <<>>
                  /\ \A i \in 2..Len(stream') : stream'[i] = stream[j + i]
      /\ p # 0 /\ j = 0 => buf' \o stream'[1].rest = buf \o stream[1].rest
      /\ p = 0 /\ j = 1 => buf' = buf \o stream[1].rest
  BY <1>2, <1>3, ReadIs
<1>5. /\ pc = "idle" /\ j + p > 0 /\ whole' = whole + j /\ pc' = "loop"
      /\ UNCHANGED <<sent, argv, multi_bulk_len, bulk_len, executed>>
  BY <1>2 DEF Read
<1>6. ~(j > 1 \/ (j = 1 /\ p > 0))
  BY <1>2 DEF Read
<1>7. p > 0 => ~SubSeq(stream, j + 1, Len(stream))[1].multi
  BY <1>2 DEF Read
<1>8. Waiting
  BY <1>5 DEF OrderlyInv, Handling, InArguments
<1>9. AtRest'
  BY <1>5, <1>8 DEF Waiting, AtRest
<1>10. (j = 1 /\ p = 0) \/ (j = 0 /\ p # 0)
  BY <1>3, <1>5, <1>6
<1>11. n # 0 /\ stream # <<>>
  <2>1. n # 0
    BY <1>2, <1>3, <1>10
  <2> QED BY <1>3, <2>1, EmptySeq
<1>12. /\ Form(sent[whole + 1], stream[1].multi, buf \o stream[1].rest)
       /\ stream[1].multi => buf = <<>>
       /\ executed = Complete /\ Fresh(2)
  BY <1>8, <1>11 DEF Waiting
<1>13. CASE j = 1 /\ p = 0
  <2>1. whole' = whole + 1 /\ Len(stream') = n - 1 /\ buf' = buf \o stream[1].rest
    BY <1>4, <1>5, <1>13
  <2>2. \A i \in 1 .. n - 1 : stream'[i] = stream[i + 1]
    <3>1. \A i \in 1..Len(stream') : stream'[i] = stream[1 + i]
      BY <1>4, <1>13
    <3>2. \A i \in 1 .. n - 1 : 1 + i = i + 1
      OBVIOUS
    <3> QED BY <2>1, <3>1, <3>2
  <2>3. Fresh(1)'
    <3> SUFFICES ASSUME NEW i \in 1 .. n - 1
                 PROVE  Form(sent'[whole' + i], stream'[i].multi, stream'[i].rest)
      BY <2>1 DEF Fresh, Form
    <3>1. i + 1 \in 2..n /\ whole' + i = whole + (i + 1)
      BY <1>3, <2>1
    <3>2. Form(sent[whole + (i + 1)], stream[i + 1].multi, stream[i + 1].rest)
      BY <1>3, <1>12, <3>1 DEF Fresh
    <3> QED BY <1>5, <2>2, <3>1, <3>2
  <2>4. whole' > 0 /\ whole' - 1 = whole /\ sent'[whole'] = sent[whole + 1]
    BY <1>3, <1>5, <2>1
  <2>5. executed' = [i \in 1..whole' - 1 |-> Arguments(sent'[i])]
    BY <1>5, <1>12, <2>4 DEF Complete
  <2> DEFINE c == sent[whole + 1]
  <2>6. c \in Commands /\ buf' \in Inline(c) \cup {Multi(c)}
    BY <1>12, <2>1 DEF Form
  <2> HIDE DEF c
  <2>7. sent'[whole'] = c
    BY <2>4 DEF c
  <2>8. Handling'
    BY <1>5, <1>9, <2>3, <2>4, <2>5, <2>6, <2>7 DEF Handling
  <2> QED BY <2>8 DEF OrderlyInv
<1>14. CASE j = 0 /\ p # 0
  <2>1. whole' = whole /\ Len(stream') = n
    BY <1>3, <1>4, <1>5, <1>14
  <2>2. /\ stream'[1].multi = stream[1].multi /\ stream'[1].rest # <<>>
        /\ buf' \o stream'[1].rest = buf \o stream[1].rest
    BY <1>4, <1>14, SMTT(30)
  <2>3. \A i \in 2..n : stream'[i] = stream[i]
    <3>1. \A i \in 2..n : stream'[i] = stream[0 + i]
      BY <1>4, <1>14, <2>1
    <3> QED BY <3>1
  <2>4. Fresh(2)'
    <3> SUFFICES ASSUME NEW i \in 2..n
                 PROVE  Form(sent'[whole' + i], stream'[i].multi, stream'[i].rest)
      BY <2>1 DEF Fresh, Form
    <3>1. Form(sent[whole + i], stream[i].multi, stream[i].rest)
      BY <1>3, <1>12 DEF Fresh
    <3> QED BY <1>5, <2>1, <2>3, <3>1
  <2>5. executed' = Complete'
    BY <1>5, <1>12, <2>1 DEF Complete
  <2>6. ~stream'[1].multi
    <3>1. SubSeq(stream, j + 1, Len(stream))[1] = stream[1]
      <4>1. SubSeq(stream, 1, n)[1] = stream[1]
        <5>1. \A i \in 1..n : stream[i] \in Sent
          BY <1>3
        <5>2. \A i \in 1 .. n - 1 + 1 : SubSeq(stream, 1, n)[i] = stream[1 + i - 1]
          BY <1>3, <5>1, SubSeqProperties
        <5>3. 1 \in 1 .. n - 1 + 1 /\ 1 + 1 - 1 = 1
          BY <1>11
        <5> QED BY <5>2, <5>3
      <4>2. j + 1 = 1 /\ Len(stream) = n
        BY <1>3, <1>14
      <4> QED BY <4>1, <4>2, Zenon
    <3>2. ~SubSeq(stream, j + 1, Len(stream))[1].multi
      <4>1. p > 0
        BY <1>14
      <4> QED BY <1>7, <4>1, Zenon

    <3> QED BY <2>2, <3>1, <3>2
  <2>7. stream' # <<>>
    BY <1>11, <2>1, EmptySeq
  <2>8. Form(sent'[whole' + 1], stream'[1].multi, buf' \o stream'[1].rest)
    BY <1>5, <1>12, <2>1, <2>2
  <2>9. Waiting'
    BY <1>5, <1>9, <2>2, <2>4, <2>5, <2>6, <2>7, <2>8 DEF Waiting, Form
  <2> QED BY <2>9 DEF OrderlyInv
<1> QED BY <1>10, <1>13, <1>14

(* The parser while it waits for the rest of a command: it waits. *)
LEMMA WaitingParse ==
  ASSUME TypeOK, Types, Waiting, Parse
  PROVE  OrderlyInv'
<1>1. ParserTypes /\ InputTypes
  BY TypesAre
<1>2. AtRest /\ pc # "bulk"
  BY DEF Waiting
<1>3. pc = "loop" /\ buf # <<>> => buf[1][1] = "char" /\ LF \notin Range(buf)
  <2> SUFFICES ASSUME buf # <<>> PROVE buf[1][1] = "char" /\ LF \notin Range(buf)
    OBVIOUS
  <2>1. /\ stream # <<>> /\ ~stream[1].multi /\ stream[1].rest # <<>>
        /\ Form(sent[whole + 1], stream[1].multi, buf \o stream[1].rest)
    BY DEF Waiting
  <2>2. stream[1].rest \in Seq(Token) /\ buf \in Seq(Token)
    <3>1. stream \in Seq(Sent)
      BY <1>1 DEF InputTypes
    <3>2. stream[1] \in Sent
      BY <2>1, <3>1, EmptySeq
    <3> QED BY <1>1, <3>2 DEF Sent, ParserTypes
  <2>3. sent[whole + 1] \in Args /\ buf \o stream[1].rest \in Inline(sent[whole + 1])
    BY <2>1, CommandsAre DEF Form
  <2> QED BY <2>1, <2>2, <2>3, PartLine
<1>4. ~InLoop(TRUE) /\ ~InBulk
  BY <1>2, <1>3 DEF InLoop, InBulk
<1>5. ~InlineLine
  BY <1>3 DEF InlineLine, InLoop
<1>6. ~Execute
  BY <1>2 DEF Execute, AtRest
<1>7. ~ExecuteJunk
  <2>1. Range(argv) = {}
    BY <1>2, EmptySeq DEF Range, AtRest
  <2> QED BY <2>1 DEF ExecuteJunk
<1>8. ~MultiDone
  BY <1>2 DEF MultiDone
<1>9. ~MultiWait /\ ~MultiEmpty /\ ~MultiHeader /\ ~MultiResume
  BY <1>4 DEF MultiWait, MultiEmpty, MultiHeader, MultiResume
<1>10. ~BulkLen /\ ~BulkError /\ ~BulkArg /\ ~BulkTooBig /\ ~MultiCut
  BY <1>4 DEF BulkLen, BulkError, BulkArg, BulkTooBig, MultiCut
<1>11. InlineWait \/ NothingToExecute
  BY <1>5, <1>6, <1>7, <1>8, <1>9, <1>10 DEF Parse
<1>12. pc' \in {"idle", "exec"} /\ UNCHANGED <<input, buf, argv, multi_bulk_len, bulk_len, executed>>
  BY <1>11 DEF InlineWait, NothingToExecute, ghosts
<1>13. Waiting'
  BY <1>12 DEF Waiting, AtRest, Fresh, Form, Complete, input
<1> QED BY <1>13 DEF OrderlyInv


(* A piece of a sequence. *)
LEMMA SliceIs ==
  ASSUME NEW S, NEW x, NEW from \in Nat, NEW l \in Nat,
         \A i \in 1..l : x[from + i] \in S
  PROVE  LET b == SubSeq(x, from + 1, from + l)
         IN b \in Seq(S) /\ Len(b) = l /\ \A i \in 1..l : b[i] = x[from + i]
<1>1. PICK u \in Int, v \in Int : u = from + 1 /\ v = from + l
  OBVIOUS
<1> DEFINE b == SubSeq(x, u, v)
<1>2. \A i \in u..v : x[i] \in S
  <2> SUFFICES ASSUME NEW i \in u..v PROVE x[i] \in S
    OBVIOUS
  <2> DEFINE m == i - from
  <2>1. m \in 1..l /\ from + m = i
    BY <1>1
  <2> HIDE DEF m
  <2>2. x[from + m] \in S
    BY <2>1
  <2> QED BY <2>1, <2>2
<1>3. /\ b \in Seq(S) /\ Len(b) = (IF u <= v THEN v - u + 1 ELSE 0)
      /\ \A i \in 1 .. v - u + 1 : b[i] = x[u + i - 1]
  BY <1>2, SubSeqProperties
<1> HIDE DEF b
<1>4. Len(b) = l
  BY <1>1, <1>3
<1>5. ASSUME NEW i \in 1..l PROVE b[i] = x[from + i]
  <2>1. i \in 1 .. v - u + 1 /\ u + i - 1 = from + i
    BY <1>1
  <2> QED BY <1>3, <2>1
<1> QED BY <1>1, <1>3, <1>4, <1>5 DEF b

(* The command at hand, whole: its one line, *)
LEMMA InlineHandled ==
  ASSUME TypeOK, Types, Parse, NEW k \in Args, pc = "loop", AtRest, buf \in Inline(k)
  PROVE  /\ pc' = "loop" /\ buf' = <<>> /\ argv' = Arguments(k)
         /\ multi_bulk_len' = 0 /\ bulk_len' = -1 /\ executed' = executed
<1>1. /\ LF \in Range(buf) /\ Quote \notin Range(Line)
      /\ Line = Words(k) /\ Drop(Len(Line) + 2) = <<>>
  BY WholeLine
<1>2. buf[1][1] = "char" /\ buf # <<>>
  <2>1. Form(k, FALSE, buf) => buf # <<>> /\ buf[1][1] = "char"
    BY FormIs
  <2>2. /\ buf[1][1] = "char" /\ buf \in Seq(Token) /\ Len(Words(k)) \in Nat
        /\ Len(buf) \in {Len(Words(k)) + 1, Len(Words(k)) + 2}
    BY InlineIs
  <2>3. Len(buf) # 0
    BY <2>2
  <2> QED BY <2>2, <2>3, EmptySeq
<1>3. ~InLoop(TRUE) /\ ~InBulk /\ ~LoopOver
  BY <1>2 DEF InLoop, InBulk, LoopOver
<1>4. ~MultiWait /\ ~MultiEmpty /\ ~MultiHeader /\ ~MultiResume
  BY <1>3 DEF MultiWait, MultiEmpty, MultiHeader, MultiResume
<1>5. ~BulkLen /\ ~BulkError /\ ~BulkArg /\ ~BulkTooBig /\ ~MultiCut /\ ~MultiDone
  BY <1>3 DEF BulkLen, BulkError, BulkArg, BulkTooBig, MultiCut, MultiDone
<1>6. ~NothingToExecute /\ ~Execute /\ ~InlineWait
  BY <1>1, <1>3 DEF NothingToExecute, Execute, InlineWait
<1>7. ~ExecuteJunk
  BY <1>3 DEF ExecuteJunk
<1>8. InlineLine
  BY <1>4, <1>5, <1>6, <1>7 DEF Parse
<1>9. argv' = SplitArgs(Line) /\ buf' = Drop(Len(Line) + 2)
  BY <1>8 DEF InlineLine
<1>10. UNCHANGED <<pc, multi_bulk_len, bulk_len, executed>>
  BY <1>8 DEF InlineLine, ghosts
<1> QED BY <1>1, <1>9, <1>10, SplitWords DEF AtRest

(* or its header, *)
LEMMA HeaderHandled ==
  ASSUME TypeOK, Types, Parse, NEW k \in Args, pc = "loop", AtRest, buf = Multi(k)
  PROVE  InArguments(k)' /\ executed' = executed
<1>1. PICK L \in Nat : L = Len(k) /\ L # 0
  BY BulksIs
<1>2. PICK N \in Nat : N = Len(buf) /\ N >= 3
  BY MultiIs
<1>3. /\ buf \in Seq(Token) /\ buf[1] = Star(L) /\ buf[2] = CR
      /\ Offset(k, 0) = 3
  BY <1>1, MultiIs
<1>4. buf # <<>> /\ buf[1][1] = "star" /\ buf[1][2] = L
  <2>1. buf # <<>>
    BY <1>2, EmptySeq
  <2> QED BY <1>3, <2>1 DEF Star
<1>5. FirstCR(0) = 2
  <2>1. 0 \in Nat /\ 2 \in 0 + 1 .. Len(buf)
    BY <1>2
  <2>2. FirstCR(0) # 0 /\ FirstCR(0) <= 2
    BY <1>3, <2>1, FirstCRIs
  <2>3. FirstCR(0) \in 0 + 1 .. Len(buf) /\ buf[FirstCR(0)] = CR
    BY <1>3, <2>1, <2>2, FirstCRIs
  <2>4. FirstCR(0) \in 1..2
    BY <1>2, <2>2, <2>3
  <2>5. buf[1] # CR
    BY <1>4 DEF CR
  <2> QED BY <2>3, <2>4, <2>5
<1>6. HasLine(0) /\ Number("star", 0) = L
  BY <1>2, <1>4, <1>5 DEF HasLine, Number
<1>7. ~BadHeader
  <2>1. L # -1
    OBVIOUS
  <2> QED BY <1>4, <1>5, <1>6, <2>1 DEF BadHeader
<1>8. ~InLoop(FALSE) /\ ~InBulk /\ ~LoopOver
  BY <1>4 DEF InLoop, InBulk, LoopOver
<1>9. ~InlineWait /\ ~InlineLine /\ ~BulkLen /\ ~BulkError /\ ~BulkArg /\ ~BulkTooBig /\ ~MultiCut
  BY <1>8 DEF InlineWait, InlineLine, BulkLen, BulkError, BulkArg, BulkTooBig, MultiCut
<1>10. ~NothingToExecute /\ ~Execute /\ ~ExecuteJunk
  <2>1. Range(argv) = {}
    BY EmptySeq DEF Range, AtRest
  <2> QED BY <1>8, <2>1 DEF NothingToExecute, Execute, ExecuteJunk
<1>11. ~MultiWait /\ ~MultiEmpty /\ ~MultiResume /\ ~MultiDone
  BY <1>1, <1>6, <1>7 DEF MultiWait, MultiEmpty, MultiResume, MultiDone, AtRest
<1>12. MultiHeader
  BY <1>9, <1>10, <1>11 DEF Parse
<1>13. /\ multi_bulk_len' = L /\ cap' = L /\ pos' = 3 /\ pc' = "bulk"
       /\ argv' = [i \in DOMAIN argv |-> Junk]
       /\ UNCHANGED <<buf, bulk_len, executed>>
  BY <1>5, <1>6, <1>12 DEF MultiHeader, ghosts
<1>14. argv' = <<>>
  <2>1. DOMAIN argv = {}
    BY EmptySeq DEF AtRest
  <2>2. argv' = argv
    BY <1>13, <2>1 DEF AtRest
  <2> QED BY <2>2 DEF AtRest
<1>15. Len(argv') = 0
  BY <1>14, EmptySeq
<1>16. InArguments(k)'
  <2>1. 0 <= L /\ L = L - 0 /\ \A i \in 1..0 : FALSE
    BY <1>1
  <2>2. bulk_len' = -1 /\ pos' = Offset(k, 0) /\ buf' = Multi(k)
    BY <1>3, <1>13 DEF AtRest
  <2> QED BY <1>1, <1>13, <1>15, <2>1, <2>2 DEF InArguments
<1> QED BY <1>13, <1>16

(* the arguments one after another, *)
LEMMA ArgumentsHandled ==
  ASSUME TypeOK, Types, Parse, NEW k \in Args, InArguments(k)
  PROVE  /\ executed' = executed
         /\ \/ InArguments(k)'
            \/ /\ pc' = "loop" /\ buf' = <<>> /\ argv' = Arguments(k)
               /\ multi_bulk_len' = 0 /\ bulk_len' = -1
<1>1. ParserTypes
  BY TypesAre
<1>2. PICK L \in Nat, n \in Nat, N \in Nat :
        L = Len(k) /\ n = Len(argv) /\ N = Len(Multi(k)) /\ DOMAIN k = 1..L
        /\ DOMAIN argv = 1..n
  <2>1. Len(k) \in Nat /\ DOMAIN k = 1..Len(k)
    BY BulksIs
  <2>2. Len(Multi(k)) \in Nat
    BY MultiIs
  <2>3. Len(argv) \in Nat /\ DOMAIN argv = 1..Len(argv)
    BY <1>1 DEF ParserTypes
  <2> QED BY <2>1, <2>2, <2>3
<1>3. /\ pc = "bulk" /\ buf = Multi(k) /\ cap = L
      /\ n <= L /\ multi_bulk_len = L - n
      /\ \A i \in 1..n : argv[i] = Letter(k[i])
      /\ \/ bulk_len = -1 /\ pos = Offset(k, n)
         \/ n < L /\ bulk_len = Len(k[n + 1]) /\ pos = Offset(k, n) + 3
  BY <1>2 DEF InArguments
<1>4. /\ buf \in Seq(Token) /\ Offset(k, L) = N
      /\ \A i \in 0..L : Offset(k, i) \in Nat /\ Offset(k, i) <= N
  BY <1>2, <1>3, MultiIs
<1>5. PICK o \in Nat : o = Offset(k, n) /\ o <= N
  <2>1. n \in 0..L
    BY <1>3
  <2> QED BY <1>4, <2>1
<1>6. PICK l : l = Len(k[n + 1])
  OBVIOUS
<1>7. n < L => /\ l \in Nat \ {0} /\ k[n + 1] \in Seq(Char)
               /\ Offset(k, n + 1) = o + l + 5 /\ o + l + 5 <= N
               /\ buf[o + 1] = Dollar(l) /\ buf[o + 2] = CR
               /\ \A i \in 1..l : buf[o + 3 + i] = Letter(k[n + 1])[i]
  <2> SUFFICES ASSUME n < L
               PROVE  /\ l \in Nat \ {0} /\ k[n + 1] \in Seq(Char)
                      /\ Offset(k, n + 1) = o + l + 5 /\ o + l + 5 <= N
                      /\ buf[o + 1] = Dollar(l) /\ buf[o + 2] = CR
                      /\ \A i \in 1..l : buf[o + 3 + i] = Letter(k[n + 1])[i]
    OBVIOUS
  <2> DEFINE m == n + 1
  <2>1. m \in 1..L /\ m - 1 = n /\ m \in 0..L
    OBVIOUS
  <2> HIDE DEF m
  <2>2. l = Len(k[m])
    BY <1>6 DEF m
  <2>3. l \in Nat \ {0} /\ k[m] \in Seq(Char)
    BY <1>2, <2>1, <2>2, BulksIs
  <2>4. /\ Offset(k, m) = Offset(k, m - 1) + Len(k[m]) + 5
        /\ Multi(k)[Offset(k, m - 1) + 1] = Dollar(Len(k[m]))
        /\ Multi(k)[Offset(k, m - 1) + 2] = CR
        /\ \A i \in 1..Len(k[m]) : Multi(k)[Offset(k, m - 1) + 3 + i] = Letter(k[m])[i]
    BY <1>2, <2>1, MultiAt
  <2>5. Offset(k, m - 1) = o
    BY <1>5, <2>1
  <2>6. /\ Offset(k, m) = o + l + 5
        /\ buf[o + 1] = Dollar(l) /\ buf[o + 2] = CR
        /\ \A i \in 1..l : buf[o + 3 + i] = Letter(k[m])[i]
    BY <1>3, <2>2, <2>4, <2>5
  <2>7. o + l + 5 <= N
    BY <1>4, <2>1, <2>6
  <2> QED BY <2>3, <2>6, <2>7 DEF m
<1>8. ~InLoop(FALSE) /\ ~InLoop(TRUE) /\ ~LoopOver
  BY <1>3 DEF InLoop, LoopOver
<1>9. ~InlineWait /\ ~InlineLine /\ ~MultiWait /\ ~MultiEmpty /\ ~MultiHeader /\ ~MultiResume
  BY <1>8 DEF InlineWait, InlineLine, MultiWait, MultiEmpty, MultiHeader, MultiResume
<1>10. ~NothingToExecute /\ ~Execute /\ ~ExecuteJunk
  BY <1>8 DEF NothingToExecute, Execute, ExecuteJunk
<1>11. CASE MultiDone
  <2>1. n = L
    BY <1>3, <1>11 DEF MultiDone
  <2>2. bulk_len = -1 /\ pos = N
    BY <1>3, <1>4, <2>1
  <2>3. /\ buf' = Drop(pos) /\ pc' = "loop"
        /\ UNCHANGED <<argv, multi_bulk_len, bulk_len, executed>>
    BY <1>11 DEF MultiDone, ghosts
  <2>4. buf' = <<>>
    <3>1. Len(buf) <= N
      BY <1>2, <1>3
    <3> QED BY <1>4, <2>2, <2>3, <3>1, DropIs
  <2>5. argv = Arguments(k)
    <3>1. argv = [i \in 1..n |-> argv[i]]
      BY <1>1, <1>2 DEF ParserTypes
    <3>2. Arguments(k) = [i \in 1..L |-> Letter(k[i])]
      BY <1>2 DEF Arguments
    <3> QED BY <1>3, <2>1, <3>1, <3>2
  <2> QED BY <1>3, <1>11, <2>2, <2>3, <2>4, <2>5 DEF MultiDone
<1>12. CASE ~MultiDone
  <2>1. BulkLen \/ BulkError \/ BulkArg \/ BulkTooBig \/ MultiCut
    BY <1>9, <1>10, <1>12 DEF Parse
  <2>2. InBulk
    BY <2>1 DEF BulkLen, BulkError, BulkArg, BulkTooBig, MultiCut
  <2>3. n < L
    BY <1>3, <2>2 DEF InBulk
  <2>4. CASE bulk_len = -1
    <3>1. pos = o /\ bulk_len = -1
      <4>1. l # -1
        BY <1>7, <2>3
      <4> QED BY <1>3, <1>5, <1>6, <2>4, <4>1
    <3>2. FirstCR(o) = o + 2
      <4>1. o + 2 \in o + 1 .. Len(buf)
        BY <1>2, <1>3, <1>7, <2>3
      <4>2. FirstCR(o) # 0 /\ FirstCR(o) <= o + 2
        BY <1>4, <1>7, <2>3, <4>1, FirstCRIs
      <4>3. FirstCR(o) \in o + 1 .. Len(buf) /\ buf[FirstCR(o)] = CR
        BY <1>4, <4>2, FirstCRIs
      <4>4. FirstCR(o) = o + 1 \/ FirstCR(o) = o + 2
        BY <1>2, <1>3, <4>2, <4>3
      <4>5. buf[o + 1] # CR
        BY <1>7, <2>3 DEF Dollar, CR
      <4> QED BY <4>3, <4>4, <4>5
    <3>3. HasLine(o)
      <4>1. o + 2 \in 1 .. Len(buf) - 1
        BY <1>2, <1>3, <1>7, <2>3, SMTT(30)
      <4> QED BY <3>2, <4>1 DEF HasLine
    <3>4. Number("dollar", o) = l
      <4>1. buf[o + 1][1] = "dollar" /\ buf[o + 1][2] = l
        BY <1>7, <2>3 DEF Dollar
      <4> QED BY <3>2, <4>1 DEF Number
    <3>5. l \in Nat
      BY <1>7, <2>3
    <3>6. ~BulkError /\ ~BulkArg /\ ~BulkTooBig /\ ~MultiCut
      <4>1. ~TooBig
        BY <3>1, <3>2, <1>2, <1>3 DEF TooBig
      <4> QED BY <3>1, <3>3, <3>4, <3>5, <4>1 DEF BulkError, BulkArg, BulkTooBig, MultiCut
    <3>7. BulkLen
      BY <2>1, <3>6
    <3>8. /\ bulk_len' = l /\ pos' = o + 3
          /\ UNCHANGED <<buf, argv, cap, multi_bulk_len, pc, executed>>
      <4>1. o + 2 + 1 = o + 3
        OBVIOUS
      <4> QED BY <3>1, <3>2, <3>4, <3>7, <4>1 DEF BulkLen, ghosts
    <3>9. InArguments(k)'
      <4>1. bulk_len' = Len(k[n + 1]) /\ pos' = Offset(k, n) + 3
        BY <1>5, <1>6, <3>8
      <4> QED BY <1>2, <1>3, <2>3, <3>8, <4>1 DEF InArguments
    <3> QED BY <3>8, <3>9
  <2>5. CASE bulk_len # -1
    <3>1. bulk_len = l /\ pos = o + 3 /\ l \in Nat
      BY <1>3, <1>5, <1>6, <1>7, <2>3, <2>5
    <3>2. Enough
      <4>1. N - (o + 3) >= l + 2
        BY <1>7, <2>3
      <4> QED BY <1>2, <1>3, <3>1, <4>1 DEF Enough
    <3>3. ~BulkLen /\ ~BulkError /\ ~BulkTooBig /\ ~MultiCut
      BY <2>5, <3>2 DEF BulkLen, BulkError, BulkTooBig, MultiCut
    <3>4. BulkArg
      BY <2>1, <3>3
    <3>5. PICK q \in Nat : q = o + 3
      OBVIOUS
    <3>6. pos = q /\ bulk_len = l
      BY <3>5, <3>1
    <3> DEFINE b == SubSeq(buf, q + 1, q + l)
    <3>7. /\ argv' = Append(argv, b) /\ pos' = o + 3 + l + 2 /\ bulk_len' = -1
          /\ multi_bulk_len' = L - n - 1
          /\ pc' = (IF Len(argv') > cap THEN "wild" ELSE pc)
          /\ UNCHANGED <<buf, cap, executed>>
      <4>1. /\ argv' = Append(argv, SubSeq(buf, pos + 1, pos + bulk_len))
            /\ pos' = pos + bulk_len + 2 /\ bulk_len' = -1
            /\ multi_bulk_len' = multi_bulk_len - 1
            /\ pc' = (IF Len(argv') > cap THEN "wild" ELSE pc)
            /\ UNCHANGED <<buf, cap, executed>>
        BY <3>4 DEF BulkArg, ghosts
      <4>2. argv' = Append(argv, b)
        BY <3>6, <4>1, Zenon
      <4> HIDE DEF b
      <4> QED BY <1>3, <3>1, <4>1, <4>2
    <3>8. b = Letter(k[n + 1])
      <4> DEFINE c == Letter(k[n + 1])
      <4>1. c \in Seq(Token) /\ Len(c) = l
        BY <1>6, <1>7, <2>3, LetterIs
      <4>2. \A i \in 1..l : buf[q + i] \in Token
        <5>1. DOMAIN buf = 1..N
          BY <1>2, <1>3, <1>4
        <5>2. \A i \in 1..N : buf[i] \in Token
          BY <1>4, <5>1
        <5>3. \A i \in 1..l : q + i \in 1..N
          BY <1>7, <2>3, <3>5
        <5> QED BY <5>2, <5>3
      <4>3. b \in Seq(Token) /\ Len(b) = l /\ \A i \in 1..l : b[i] = buf[q + i]
        BY <3>1, <4>2, SliceIs
      <4> HIDE DEF b, c
      <4>4. ASSUME NEW i \in 1..l PROVE b[i] = c[i]
        <5>1. b[i] = buf[o + 3 + i]
          BY <3>5, <4>3
        <5> QED BY <1>7, <2>3, <5>1 DEF c
      <4>5. b = c
        BY <4>1, <4>3, <4>4, SeqEqual

      <4> QED BY <4>5 DEF c
    <3> HIDE DEF b
    <3>9. /\ Len(argv') = n + 1 /\ argv'[n + 1] = b
          /\ \A i \in 1..n : argv'[i] = argv[i]
      <4>1. argv \in Seq(Seq(Token) \cup {Junk}) /\ b \in Seq(Token) \cup {Junk}
        <5>1. Letter(k[n + 1]) \in Seq(Token)
          BY <1>7, <2>3, LetterIs
        <5> QED BY <1>1, <3>8, <5>1 DEF ParserTypes
      <4> QED BY <1>2, <3>7, <4>1, AppendProperties
    <3>10. pc' = "bulk"
      <4>1. ~(Len(argv') > cap)
        BY <1>3, <2>3, <3>9
      <4> QED BY <1>3, <3>7, <4>1
    <3>11. \A i \in 1 .. n + 1 : argv'[i] = Letter(k[i])
      <4>1. \A i \in 1 .. n + 1 : i \in 1..n \/ i = n + 1
        OBVIOUS
      <4> QED BY <1>3, <3>8, <3>9, <4>1
    <3>12. n + 1 <= L /\ L - n - 1 = L - (n + 1) /\ pos' = Offset(k, n + 1)
      <4>1. o + 3 + l + 2 = o + l + 5
        BY <3>1
      <4> QED BY <1>7, <2>3, <3>7, <4>1
    <3>13. InArguments(k)'
      BY <1>2, <1>3, <3>7, <3>9, <3>10, <3>11, <3>12 DEF InArguments
    <3> QED BY <3>7, <3>13
  <2> QED BY <2>4, <2>5
<1> QED BY <1>11, <1>12


(* and its arguments executed. *)
LEMMA ExecuteHandled ==
  ASSUME TypeOK, Types, Parse, NEW k \in Args,
         pc = "loop", buf = <<>>, argv = Arguments(k), multi_bulk_len = 0, bulk_len = -1
  PROVE  /\ executed' = Append(executed, Arguments(k)) /\ AtRest' /\ pc' = "idle" /\ buf' = <<>>
<1>1. PICK L \in Nat : L = Len(k) /\ L # 0 /\ DOMAIN k = 1..L
  BY BulksIs
<1>2. \A i \in 1..L : Letter(k[i]) # Junk
  <2> SUFFICES ASSUME NEW i \in 1..L PROVE Letter(k[i]) # Junk
    OBVIOUS
  <2>1. k[i] \in Seq(Char) /\ Len(k[i]) \in Nat \ {0}
    BY <1>1, BulksIs
  <2>2. 1 \in 1..Len(k[i])
    BY <2>1
  <2>3. Letter(k[i])[1][1] = "char"
    BY <2>1, <2>2, LetterIs
  <2>4. Junk[1][1] = "junk"
    BY DEF Junk
  <2> QED BY <2>3, <2>4
<1>3. Arguments(k) = [i \in 1..L |-> Letter(k[i])]
  BY <1>1 DEF Arguments
<1>4. argv # <<>>
  <2>1. DOMAIN argv = 1..L /\ 1 \in 1..L
    BY <1>1, <1>3
  <2>2. DOMAIN <<>> = {}
    BY EmptySeq
  <2> QED BY <2>1, <2>2
<1>5. Junk \notin Range(argv)
  <2>1. DOMAIN argv = 1..L /\ \A i \in 1..L : argv[i] # Junk
    BY <1>2, <1>3
  <2> QED BY <2>1 DEF Range
<1>6. ~InLoop(FALSE) /\ ~InLoop(TRUE) /\ ~InBulk
  BY DEF InLoop, InBulk
<1>7. ~InlineWait /\ ~InlineLine /\ ~MultiWait /\ ~MultiEmpty /\ ~MultiHeader /\ ~MultiResume
  BY <1>6 DEF InlineWait, InlineLine, MultiWait, MultiEmpty, MultiHeader, MultiResume
<1>8. ~BulkLen /\ ~BulkError /\ ~BulkArg /\ ~BulkTooBig /\ ~MultiCut /\ ~MultiDone
  BY <1>6 DEF BulkLen, BulkError, BulkArg, BulkTooBig, MultiCut, MultiDone
<1>9. ~NothingToExecute /\ ~ExecuteJunk
  BY <1>4, <1>5 DEF NothingToExecute, ExecuteJunk
<1>10. Execute
  BY <1>7, <1>8, <1>9 DEF Parse
<1> QED BY <1>10 DEF Execute, AtRest

LEMMA ParseKeepsInput ==
  ASSUME Parse
  PROVE  UNCHANGED <<stream, sent, whole>>
BY DEF Parse, InlineWait, InlineLine, MultiWait, MultiEmpty, MultiHeader, MultiResume,
       BulkLen, BulkError, BulkArg, BulkTooBig, MultiCut, MultiDone, NothingToExecute, Execute,
       ExecuteJunk, input

LEMMA HandlingParse ==
  ASSUME TypeOK, Types, Handling, Parse
  PROVE  OrderlyInv'
<1> DEFINE k == sent[whole]
<1>1. InputTypes
  BY TypesAre
<1>2. UNCHANGED <<stream, sent, whole>>
  BY ParseKeepsInput
<1>3. PICK n \in Nat : n = whole /\ n > 0 /\ n - 1 \in Nat
  BY <1>1 DEF InputTypes, Handling
<1>4. k \in Args /\ k \in Commands
  BY CommandsAre DEF Handling
<1>5. Fresh(1)'
  BY <1>2 DEF Handling, Fresh, Form
<1>6. executed = [i \in 1..n - 1 |-> Arguments(sent[i])]
  BY <1>3 DEF Handling
<1>7. ASSUME executed' = executed,
             \/ InArguments(k)'
             \/ /\ pc' = "loop" /\ buf' = <<>> /\ argv' = Arguments(k)
                /\ multi_bulk_len' = 0 /\ bulk_len' = -1
      PROVE  OrderlyInv'
  <2>1. sent'[whole'] = k /\ whole' > 0
    BY <1>2, <1>3
  <2>2. executed' = [i \in 1..whole' - 1 |-> Arguments(sent'[i])]
    BY <1>2, <1>3, <1>6, <1>7
  <2>3. InArguments(k)' <=> InArguments(sent[whole])'
    BY <1>2 DEF InArguments
  <2>4. Handling'
    BY <1>2, <1>4, <1>5, <1>7, <2>1, <2>2, <2>3 DEF Handling
  <2> QED BY <2>4 DEF OrderlyInv
<1>8. \/ pc = "loop" /\ AtRest /\ buf \in Inline(k)
      \/ pc = "loop" /\ AtRest /\ buf = Multi(k)
      \/ InArguments(k)
      \/ /\ pc = "loop" /\ buf = <<>> /\ argv = Arguments(k)
         /\ multi_bulk_len = 0 /\ bulk_len = -1
  BY DEF Handling
<1>9. CASE pc = "loop" /\ AtRest /\ buf \in Inline(k)
  <2>1. /\ pc' = "loop" /\ buf' = <<>> /\ argv' = Arguments(k)
        /\ multi_bulk_len' = 0 /\ bulk_len' = -1 /\ executed' = executed
    BY <1>4, <1>9, InlineHandled
  <2> QED BY <1>7, <2>1
<1>10. CASE pc = "loop" /\ AtRest /\ buf = Multi(k)
  <2>1. \A c \in Args : buf = Multi(c) => InArguments(c)' /\ executed' = executed
    BY <1>10, HeaderHandled
  <2>2. InArguments(k)' /\ executed' = executed
    <3>1. PICK c \in Args : c = k
      BY <1>4
    <3>2. InArguments(c)' /\ executed' = executed
      BY <1>10, <2>1, <3>1
    <3> QED BY <1>2, <3>1, <3>2 DEF InArguments
  <2> QED BY <1>7, <2>2
<1>11. CASE InArguments(k)
  <2>1. PICK c \in Args : c = k
    BY <1>4
  <2>2. InArguments(c)
    BY <1>11, <2>1
  <2>3. /\ executed' = executed
        /\ \/ InArguments(c)'
           \/ /\ pc' = "loop" /\ buf' = <<>> /\ argv' = Arguments(c)
              /\ multi_bulk_len' = 0 /\ bulk_len' = -1
    BY <2>2, ArgumentsHandled
  <2>4. InArguments(c)' => InArguments(k)'
    BY <1>2, <2>1 DEF InArguments
  <2> QED BY <1>7, <2>1, <2>3, <2>4
<1>12. CASE /\ pc = "loop" /\ buf = <<>> /\ argv = Arguments(k)
            /\ multi_bulk_len = 0 /\ bulk_len = -1
  <2>1. /\ executed' = Append(executed, Arguments(k)) /\ AtRest' /\ pc' = "idle"
        /\ buf' = <<>>
    BY <1>4, <1>12, ExecuteHandled
  <2>2. Complete = [i \in 1..n |-> Arguments(sent[i])]
    BY <1>3 DEF Complete
  <2>3. executed' = Complete
    <3> DEFINE a(i) == Arguments(sent[i])
    <3>1. executed = [i \in 1..n - 1 |-> a(i)]
      BY <1>6
    <3>2. executed' = Append(executed, a(n))
      BY <1>3, <2>1
    <3>3. Complete = [i \in 1..n |-> a(i)]
      BY <2>2
    <3> HIDE DEF a
    <3>4. Append([i \in 1..n - 1 |-> a(i)], a(n)) = [i \in 1..n |-> a(i)]
      <4> DEFINE s == [i \in 1..n - 1 |-> a(i)]
                 S == {a(i) : i \in 1..n}
                 t == [i \in 1..n |-> a(i)]
      <4>1. s \in Seq(S) /\ Len(s) = n - 1 /\ a(n) \in S
        BY <1>3
      <4>2. \A i \in 1..n - 1 : s[i] = a(i)
        OBVIOUS
      <4>3. t \in Seq(S) /\ Len(t) = n
        OBVIOUS
      <4>4. \A i \in 1..n : t[i] = a(i)
        OBVIOUS
      <4> DEFINE u == Append(s, a(n))
      <4> HIDE DEF s, t, S
      <4>5. /\ u \in Seq(S) /\ Len(u) = Len(s) + 1
            /\ \A i \in 1..Len(s) : u[i] = s[i]
            /\ u[Len(s) + 1] = a(n)
        BY <4>1, AppendProperties
      <4> HIDE DEF u
      <4>6. Len(u) = n /\ u[n] = a(n) /\ \A i \in 1..n - 1 : u[i] = a(i)
        BY <1>3, <4>1, <4>2, <4>5
      <4>7. \A i \in 1..n : u[i] = t[i]
        <5>1. \A i \in 1..n : i \in 1..n - 1 \/ i = n
          OBVIOUS
        <5> QED BY <4>4, <4>6, <5>1
      <4>8. u = t
        BY <4>3, <4>5, <4>6, <4>7, SeqEqual
      <4> QED BY <4>8 DEF u, s, t
    <3> QED BY <3>1, <3>2, <3>3, <3>4
  <2>4. executed' = Complete'
    BY <1>2, <2>3 DEF Complete
  <2>5. Fresh(2)'
    BY <1>5 DEF Fresh
  <2>6. PICK N \in Nat : N = Len(stream) /\ stream \in Seq(Sent)
    BY <1>1 DEF InputTypes
  <2>7. ASSUME stream # <<>>
        PROVE  /\ Form(sent[whole + 1], stream[1].multi, stream[1].rest)
               /\ stream[1].rest \in Seq(Token) /\ stream[1].rest # <<>>
    <3>1. 1 \in 1..N
      BY <2>6, <2>7, EmptySeq
    <3>2. Form(sent[whole + 1], stream[1].multi, stream[1].rest)
      BY <2>6, <3>1 DEF Handling, Fresh
    <3> QED BY <3>2, FormIs
  <2>8. ASSUME stream' # <<>>
        PROVE  /\ Form(sent'[whole' + 1], stream'[1].multi, buf' \o stream'[1].rest)
               /\ stream'[1].rest # <<>>
    <3>1. /\ Form(sent[whole + 1], stream[1].multi, stream[1].rest)
          /\ stream[1].rest \in Seq(Token) /\ stream[1].rest # <<>>
      BY <1>2, <2>7, <2>8
    <3>2. buf' \o stream'[1].rest = stream[1].rest
      BY <1>2, <2>1, <3>1, ConcatEmptySeq
    <3> QED BY <1>2, <3>1, <3>2
  <2>9. Waiting'
    BY <2>1, <2>4, <2>5, <2>8 DEF Waiting, Form
  <2> QED BY <2>9 DEF OrderlyInv
<1> QED BY <1>8, <1>9, <1>10, <1>11, <1>12

LEMMA IInvInit ==
  ASSUME Init
  PROVE  IInv
<1>1. TypeOK /\ Types
  BY TypesInit
<1>2. Orderly => Waiting
  <2> SUFFICES ASSUME Orderly PROVE Waiting
    OBVIOUS
  <2>1. argv = <<>>
    BY DEF Init, Orderly
  <2>2. Complete = <<>>
    <3>1. whole = 0
      BY DEF Init
    <3>2. Complete = [i \in 1..0 |-> Arguments(sent[i])]
      BY <3>1 DEF Complete
    <3> QED BY <3>2
  <2>3. Len(stream) = 0
    BY EmptySeq DEF Init
  <2>4. Fresh(2)
    BY <2>3 DEF Fresh
  <2> QED BY <2>1, <2>2, <2>4 DEF Init, Waiting, AtRest
<1> QED BY <1>1, <1>2 DEF IInv

LEMMA IInvStep ==
  ASSUME IInv, [Next]_vars
  PROVE  IInv'
<1>1. TypeOK /\ Types /\ (Orderly => OrderlyInv)
  BY DEF IInv, OrderlyInv
<1>2. TypeOK' /\ Types'
  BY <1>1, TypesStep
<1>3. ASSUME Orderly' PROVE OrderlyInv'
  <2>1. OrderlyInv
    BY <1>1, <1>3, OrderlyBefore
  <2>2. WellFormed' /\ ~joined' /\ ~cutMulti'
    BY <1>3 DEF Orderly
  <2>3. CASE Subscriber
    BY <1>1, <2>1, <2>2, <2>3, OrderlySend
  <2>4. CASE ReadSome
    BY <1>1, <2>1, <2>2, <2>4, OrderlyRead
  <2>5. CASE Parse
    BY <1>1, <2>1, <2>5, WaitingParse, HandlingParse DEF OrderlyInv
  <2>6. CASE UNCHANGED vars
    BY <2>1, <2>6 DEF OrderlyInv, Waiting, Handling, InArguments, AtRest, Fresh, Form, Complete,
         vars, input, parser, ghosts
  <2> QED BY <2>3, <2>4, <2>5, <2>6 DEF Next
<1>4. Orderly' => Waiting' \/ Handling'
  BY <1>3 DEF OrderlyInv
<1> QED BY <1>2, <1>4 DEF IInv

(***************************************************************************)
(* An orderly subscriber has its commands executed: each one read whole,   *)
(* in the order sent, with its own arguments, and nothing else, wherever   *)
(* the reads cut its inline commands.  No pointer of argv is used unset    *)
(* and none is written outside the array.                                  *)
(***************************************************************************)
THEOREM CommandsExecuted == Spec => []ExecutesCommands
<1>1. Init => IInv
  BY IInvInit
<1>2. IInv /\ [Next]_vars => IInv'
  BY IInvStep
<1>3. IInv => ExecutesCommands
  <2> SUFFICES ASSUME IInv, Orderly
               PROVE  pc # "wild" /\ (pc = "idle" => executed = Complete)
    BY DEF ExecutesCommands
  <2>1. Waiting \/ Handling
    BY DEF IInv
  <2> QED BY <2>1 DEF Waiting, Handling, InArguments
<1> QED BY <1>1, <1>2, <1>3, PTL DEF Spec

=============================================================================
