--------------------------- MODULE TrieWalkProofs ---------------------------
(***************************************************************************)
(* Proofs about TrieWalk, for any alphabet, any trie and any message: a    *)
(* publish looks up exactly the topics the message starts with, whatever   *)
(* the conversion left behind a byte it stopped at.                        *)
(***************************************************************************)
EXTENDS TrieWalk, SequenceTheorems, TLAPS

Sign == Chars \cup {Nul}

-----------------------------------------------------------------------------
(* Prefixes. *)

LEMMA PrefixIs ==
  ASSUME NEW S, NEW s \in Seq(S), NEW p \in 0..Len(s)
  PROVE  /\ SubSeq(s, 1, p) \in Seq(S) /\ Len(SubSeq(s, 1, p)) = p
         /\ \A i \in 1..p : SubSeq(s, 1, p)[i] = s[i]
<1>1. Len(s) \in Nat /\ \A i \in 1..Len(s) : s[i] \in S
  BY LenProperties
<1>2. p \in Int /\ 1 \in Int /\ \A i \in 1..p : s[i] \in S
  BY <1>1
<1> DEFINE t == SubSeq(s, 1, p)
<1>3. /\ t \in Seq(S) /\ Len(t) = IF 1 <= p THEN p - 1 + 1 ELSE 0
      /\ \A i \in 1..p - 1 + 1 : t[i] = s[1 + i - 1]
  BY <1>2, SubSeqProperties
<1> HIDE DEF t
<1>4. p \in Nat /\ p - 1 + 1 = p /\ \A i \in 1..p : 1 + i - 1 = i
  BY <1>1
<1>5. t \in Seq(S) /\ Len(t) = p /\ \A i \in 1..p : t[i] = s[i]
  BY <1>3, <1>4
<1> QED BY <1>5 DEF t

LEMMA StartsWithIs ==
  ASSUME NEW S, NEW s \in Seq(S), NEW t \in Seq(S)
  PROVE  StartsWith(s, t) <=>
           Len(t) <= Len(s) /\ \A i \in 1..Len(t) : s[i] = t[i]
<1>1. Len(s) \in Nat /\ Len(t) \in Nat
  OBVIOUS
<1> SUFFICES ASSUME Len(t) <= Len(s)
             PROVE  SubSeq(s, 1, Len(t)) = t <=> \A i \in 1..Len(t) : s[i] = t[i]
  BY DEF StartsWith
<1> DEFINE p == SubSeq(s, 1, Len(t))
<1>2. Len(t) \in 0..Len(s)
  BY <1>1
<1>3. p \in Seq(S) /\ Len(p) = Len(t) /\ \A i \in 1..Len(t) : p[i] = s[i]
  BY <1>2, PrefixIs
<1> HIDE DEF p
<1>4. p = t <=> \A i \in 1..Len(t) : s[i] = t[i]
  BY <1>3, SeqEqual
<1> QED BY <1>4 DEF p

(* A character is appended to a prefix. *)
LEMMA PrefixGrows ==
  ASSUME NEW S, NEW s \in Seq(S), NEW p \in Nat, p < Len(s)
  PROVE  Append(SubSeq(s, 1, p), s[p + 1]) = SubSeq(s, 1, p + 1)
<1> DEFINE n == Len(s)
           a == SubSeq(s, 1, p)
           b == SubSeq(s, 1, p + 1)
           x == s[p + 1]
<1>1. n \in Nat /\ p \in 0..n /\ p + 1 \in 0..n /\ p + 1 \in 1..n
  OBVIOUS
<1>2. x \in S
  BY <1>1, LenProperties
<1>3. a \in Seq(S) /\ Len(a) = p /\ \A i \in 1..p : a[i] = s[i]
  BY <1>1, PrefixIs
<1>4. b \in Seq(S) /\ Len(b) = p + 1 /\ \A i \in 1..p + 1 : b[i] = s[i]
  BY <1>1, PrefixIs
<1>5. s[p + 1] = x
  OBVIOUS
<1> HIDE DEF a, b, x, n
<1> DEFINE c == Append(a, x)
<1>6. c \in Seq(S) /\ Len(c) = p + 1 /\ (\A i \in 1..p : c[i] = a[i]) /\ c[p + 1] = x
  BY <1>2, <1>3, AppendProperties
<1> HIDE DEF c
<1>7. \A i \in 1..p + 1 : c[i] = b[i]
  <2> TAKE i \in 1..p + 1
  <2>1. i \in 1..p \/ i = p + 1
    OBVIOUS
  <2> QED BY <1>3, <1>4, <1>5, <1>6, <2>1
<1>8. c = b
  BY <1>4, <1>6, <1>7, SeqEqual
<1> QED BY <1>8 DEF a, b, c, x

-----------------------------------------------------------------------------
(* What the trie says of a key, followed by its terminator. *)

LEMMA Terminated ==
  ASSUME NEW k \in Seq(Letters)
  PROVE  /\ k \in Seq(Sign) /\ Append(k, Nul) \in Seq(Sign)
         /\ Len(k) \in Nat /\ Len(Append(k, Nul)) = Len(k) + 1
         /\ \A i \in 1..Len(k) : Append(k, Nul)[i] = k[i] /\ k[i] \in Letters
         /\ Append(k, Nul)[Len(k) + 1] = Nul
<1>1. Letters \subseteq Sign /\ Nul \in Sign
  BY DEF Sign, Chars
<1>2. k \in Seq(Sign)
  BY <1>1, SeqMonotonic
<1> QED BY <1>1, <1>2, AppendProperties, LenProperties

(* Only a key itself, of the words without Nul, is followed by Nul. *)
LEMMA TerminalIsKey ==
  ASSUME NEW k \in Seq(Letters), NEW q \in Seq(Sign),
         \A i \in 1..Len(q) : q[i] # Nul,
         StartsWith(Append(k, Nul), Append(q, Nul))
  PROVE  q = k
<1> DEFINE K == Append(k, Nul)
           Q == Append(q, Nul)
           m == Len(k)
           n == Len(q)
<1>1. /\ k \in Seq(Sign) /\ K \in Seq(Sign) /\ m \in Nat /\ Len(K) = m + 1
      /\ (\A i \in 1..m : K[i] = k[i] /\ k[i] \in Letters) /\ K[m + 1] = Nul
  BY Terminated
<1>2. Nul \in Sign /\ Nul \notin Letters
  BY CharAssumption DEF Sign, Chars
<1>3. /\ Q \in Seq(Sign) /\ n \in Nat /\ Len(Q) = n + 1
      /\ (\A i \in 1..n : Q[i] = q[i]) /\ Q[n + 1] = Nul
  BY <1>2, AppendProperties
<1>4. StartsWith(K, Q)
  OBVIOUS
<1> HIDE DEF K, Q, m, n
<1>5. n <= m /\ \A i \in 1..n + 1 : K[i] = Q[i]
  <2>1. Len(Q) <= Len(K) /\ \A i \in 1..Len(Q) : K[i] = Q[i]
    BY <1>1, <1>3, <1>4, StartsWithIs
  <2> QED BY <1>1, <1>3, <2>1
<1>6. n = m
  <2> SUFFICES ASSUME n < m PROVE FALSE
    BY <1>1, <1>3, <1>5
  <2>1. n + 1 \in 1..m /\ n + 1 \in 1..n + 1
    BY <1>1, <1>3
  <2> QED BY <1>1, <1>2, <1>3, <1>5, <2>1
<1>7. \A i \in 1..n : q[i] = k[i]
  <2> TAKE i \in 1..n
  <2>1. i \in 1..n + 1 /\ i \in 1..m
    BY <1>3, <1>6
  <2> QED BY <1>1, <1>3, <1>5, <2>1
<1> QED BY <1>1, <1>6, <1>7, SeqEqual DEF m, n

(* The walk along a key is not refused, and a key is found at its end. *)
LEMMA KeyWalkable ==
  ASSUME NEW k \in Seq(Letters), NEW p \in Nat, p < Len(k)
  PROVE  StartsWith(Append(k, Nul), Append(SubSeq(k, 1, p), k[p + 1]))
<1> DEFINE K == Append(k, Nul)
           P == SubSeq(k, 1, p + 1)
           m == Len(k)
<1>1. /\ k \in Seq(Sign) /\ K \in Seq(Sign) /\ m \in Nat /\ Len(K) = m + 1
      /\ \A i \in 1..m : K[i] = k[i]
  BY Terminated
<1>2. p + 1 \in 0..m
  BY <1>1
<1>3. P \in Seq(Sign) /\ Len(P) = p + 1 /\ \A i \in 1..p + 1 : P[i] = k[i]
  BY <1>1, <1>2, PrefixIs
<1>4. Append(SubSeq(k, 1, p), k[p + 1]) = P
  BY PrefixGrows
<1> HIDE DEF K, P, m
<1>5. \A i \in 1..p + 1 : K[i] = P[i]
  <2> TAKE i \in 1..p + 1
  <2>1. i \in 1..m
    BY <1>1, <1>2
  <2> QED BY <1>1, <1>3, <2>1
<1>6. StartsWith(K, P)
  <2>1. Len(P) <= Len(K) /\ \A i \in 1..Len(P) : K[i] = P[i]
    BY <1>1, <1>2, <1>3, <1>5
  <2> QED BY <1>1, <1>3, <2>1, StartsWithIs
<1> QED BY <1>4, <1>6 DEF K

LEMMA KeyTerminal ==
  ASSUME NEW k \in Seq(Letters)
  PROVE  StartsWith(Append(k, Nul), Append(k, Nul))
<1> DEFINE K == Append(k, Nul)
<1>1. K \in Seq(Sign) /\ Len(K) \in Nat
  BY Terminated
<1> HIDE DEF K
<1>2. StartsWith(K, K)
  BY <1>1, StartsWithIs
<1> QED BY <1>2 DEF K

-----------------------------------------------------------------------------
(***************************************************************************)
(* The inductive invariant.  The walk stands behind the first cur          *)
(* characters as long as they convert; behind a byte that does not it      *)
(* stays on a terminator.  prefix is the message with one cut.  Every      *)
(* topic the walk has passed was looked up, and nothing else was.          *)
(***************************************************************************)
Plain(p) == \A j \in 1..p : msg[j] \notin Stops

PathOK == IF Plain(cur) THEN path = SubSeq(msg, 1, cur) ELSE Ended(path)

PrefixOK ==
  \A i \in 1..Len(msg) + 1 :
    prefix[i] = IF i = Len(msg) + 1 \/ (i = last + 1 /\ last > 0) THEN Nul ELSE msg[i]

FoundOK == found => Terminal(path) /\ last < cur

TopicOrStopped(s) == s \in keys \/ \E j \in DOMAIN s : s[j] \in Stops

LookupsOK ==
  /\ \A i \in DOMAIN lookups : /\ Len(lookups[i]) \in 1..last
                               /\ lookups[i] = SubSeq(msg, 1, Len(lookups[i]))
                               /\ TopicOrStopped(lookups[i])
  /\ \A i, j \in DOMAIN lookups : i < j => Len(lookups[i]) < Len(lookups[j])

Topics == {k \in keys \ {<<>>} : StartsWith(msg, k)}

LookedUp(k) == \E i \in DOMAIN lookups : lookups[i] = k

NothingMissed ==
  \A k \in Topics : Len(k) < cur \/ (Len(k) = cur /\ ~found) => LookedUp(k)

DoneOK == done => ~found /\ \A k \in Topics : Len(k) <= cur

IInv ==
  /\ TypeOK /\ IsAlphaOf(alpha, msg)
  /\ PathOK /\ PrefixOK /\ FoundOK /\ LookupsOK /\ NothingMissed /\ DoneOK

-----------------------------------------------------------------------------
(* Facts of every state. *)

LEMMA MessageIs ==
  ASSUME NEW m \in Messages
  PROVE  /\ m \in Seq(Chars) /\ m \in Seq(Sign) /\ Len(m) \in Nat
         /\ DOMAIN m = 1..Len(m) /\ \A i \in 1..Len(m) : m[i] \in Chars /\ m[i] # Nul
<1>1. m \in Seq(Chars) /\ Chars \subseteq Sign /\ Nul \notin Chars
  BY MessageAssumption, CharAssumption DEF Sign
<1>2. m \in Seq(Sign)
  BY <1>1, SeqMonotonic
<1> QED BY <1>1, <1>2, LenProperties

LEMMA TopicIs ==
  ASSUME TypeOK, NEW k \in Topics
  PROVE  /\ k \in Seq(Letters) /\ k \in keys /\ Len(k) \in Nat \ {0} /\ Len(k) <= Len(msg)
         /\ Plain(Len(k)) /\ \A i \in 1..Len(k) : msg[i] = k[i] /\ k[i] \in Letters
         /\ \A p \in 0..Len(k) : SubSeq(msg, 1, p) = SubSeq(k, 1, p)
         /\ SubSeq(msg, 1, Len(k)) = k
<1> DEFINE n == Len(k)
<1>1. k \in keys /\ k # <<>> /\ StartsWith(msg, k)
  BY DEF Topics
<1>2. k \in Seq(Letters)
  BY <1>1, KeyAssumption DEF TypeOK
<1>3. msg \in Seq(Sign) /\ Len(msg) \in Nat
  BY MessageIs DEF TypeOK
<1>4. k \in Seq(Sign) /\ n \in Nat /\ \A i \in 1..n : k[i] \in Letters
  BY <1>2, Terminated
<1>5. n # 0
  BY <1>1, <1>2, EmptySeq
<1>6. n <= Len(msg) /\ \A i \in 1..n : msg[i] = k[i]
  BY <1>1, <1>3, <1>4, StartsWithIs
<1>7. Plain(n)
  BY <1>4, <1>6, CharAssumption DEF Plain
<1> DEFINE m == Len(msg)
<1>8. n <= m /\ m \in Nat
  BY <1>3, <1>6
<1>9. ASSUME NEW p \in 0..n PROVE SubSeq(msg, 1, p) = SubSeq(k, 1, p)
  <2> DEFINE a == SubSeq(msg, 1, p)
             b == SubSeq(k, 1, p)
  <2>1. p \in 0..m
    <3> HIDE DEF n, m
    <3> QED BY <1>4, <1>8
  <2>2. a \in Seq(Sign) /\ Len(a) = p /\ \A i \in 1..p : a[i] = msg[i]
    BY <1>3, <2>1, PrefixIs
  <2>3. b \in Seq(Sign) /\ Len(b) = p /\ \A i \in 1..p : b[i] = k[i]
    BY <1>4, PrefixIs
  <2>4. \A i \in 1..p : i \in 1..n
    <3> HIDE DEF n
    <3> QED BY <1>4
  <2> HIDE DEF a, b
  <2>5. a = b
    BY <1>6, <2>2, <2>3, <2>4, SeqEqual
  <2> QED BY <2>5 DEF a, b
<1>10. SubSeq(k, 1, n) = k
  BY <1>2, SubSeqFull
<1>11. n \in 0..n
  BY <1>4
<1> QED BY <1>1, <1>2, <1>4, <1>5, <1>6, <1>7, <1>9, <1>10, <1>11

(* What the walk reads behind characters that convert. *)
LEMMA AlphaAt ==
  ASSUME TypeOK, IsAlphaOf(alpha, msg), NEW p \in Nat, p < Len(msg), Plain(p)
  PROVE  /\ alpha[p + 1] = IF msg[p + 1] \in Stops THEN Nul ELSE msg[p + 1]
         /\ Plain(p + 1) <=> msg[p + 1] \notin Stops
<1>1. Len(msg) \in Nat /\ DOMAIN msg = 1..Len(msg)
  BY MessageIs DEF TypeOK
<1>2. p + 1 \in DOMAIN msg /\ p \in 0..Len(msg)
  BY <1>1
<1>3. Plain(p + 1) <=> msg[p + 1] \notin Stops
  BY DEF Plain
<1>4. p + 1 \in Converted(msg) <=> Plain(p + 1)
  BY <1>2 DEF Converted, Plain
<1>5. p + 1 = 1 \/ (p + 1) - 1 \in Converted(msg)
  BY <1>1, <1>2 DEF Converted, Plain
<1> QED BY <1>2, <1>3, <1>4, <1>5 DEF IsAlphaOf

(* The walk over characters that convert has met no terminator. *)
LEMMA PlainPath ==
  ASSUME TypeOK, NEW p \in 0..Len(msg)
  PROVE  LET s == SubSeq(msg, 1, p)
         IN  /\ s \in Seq(Chars) /\ s \in Seq(Sign) /\ Len(s) = p
             /\ \A i \in 1..p : s[i] = msg[i] /\ s[i] # Nul
             /\ ~Ended(s)
<1> DEFINE s == SubSeq(msg, 1, p)
<1>1. /\ msg \in Seq(Chars) /\ msg \in Seq(Sign) /\ Len(msg) \in Nat
      /\ \A i \in 1..Len(msg) : msg[i] # Nul
  BY MessageIs DEF TypeOK
<1>2. /\ s \in Seq(Chars) /\ s \in Seq(Sign) /\ Len(s) = p
      /\ \A i \in 1..p : s[i] = msg[i]
  BY <1>1, PrefixIs
<1>3. \A i \in 1..p : i \in 1..Len(msg)
  BY <1>1
<1>4. ~Ended(s)
  <2> HIDE DEF s
  <2>1. s # <<>> => p \in 1..p
    BY <1>2, EmptySeq
  <2> QED BY <1>1, <1>2, <1>3, <2>1 DEF Ended
<1> QED BY <1>1, <1>2, <1>3, <1>4

-----------------------------------------------------------------------------
LEMMA InitIInv == Init => IInv
<1> SUFFICES ASSUME Init PROVE IInv
  OBVIOUS
<1> DEFINE n == Len(msg)
<1>1. /\ msg \in Messages /\ keys \in KeySets /\ n \in Nat /\ DOMAIN msg = 1..n
      /\ msg \in Seq(Sign) /\ Nul \in Sign
  BY MessageIs DEF Init, Sign
<1>2. /\ prefix \in Seq(Sign) /\ Len(prefix) = n + 1
      /\ (\A i \in 1..n : prefix[i] = msg[i]) /\ prefix[n + 1] = Nul
  BY <1>1, AppendProperties DEF Init
<1>3. cur \in 0..n /\ last \in 0..cur
  BY <1>1 DEF Init
<1>4. TypeOK
  <2>1. path \in Seq(Letters \cup Others \cup {Nul}) /\ lookups \in Seq(Seq(Chars))
    BY EmptySeq DEF Init
  <2>2. prefix \in Seq(Chars \cup {Nul})
    BY <1>2 DEF Sign
  <2>3. Len(prefix) = Len(msg) + 1
    BY <1>2
  <2> HIDE DEF n
  <2> QED BY <1>1, <1>3, <2>1, <2>2, <2>3 DEF Init, TypeOK, n
<1>5. PathOK
  <2>1. SubSeq(msg, 1, 0) = <<>>
    BY SubSeqEmpty
  <2> QED BY <2>1 DEF Init, PathOK, Plain
<1>6. PrefixOK
  <2> SUFFICES ASSUME NEW i \in 1..n + 1
               PROVE  prefix[i] = IF i = n + 1 \/ (i = last + 1 /\ last > 0) THEN Nul
                                  ELSE msg[i]
    BY DEF PrefixOK
  <2>1. ~(last > 0)
    BY DEF Init
  <2>2. i \in 1..n \/ i = n + 1
    BY <1>1
  <2> QED BY <1>2, <2>1, <2>2
<1>7. NothingMissed
  BY <1>4, TopicIs DEF Init, NothingMissed
<1>8. FoundOK /\ LookupsOK /\ DoneOK
  BY DEF Init, FoundOK, LookupsOK, DoneOK
<1> QED BY <1>4, <1>5, <1>6, <1>7, <1>8 DEF IInv, Init

LEMMA StepPath ==
  ASSUME IInv, Step
  PROVE  PathOK' /\ path' \in Seq(Letters \cup Others \cup {Nul})
<1> DEFINE q == cur + 1
<1>1. /\ TypeOK /\ IsAlphaOf(alpha, msg) /\ PathOK
      /\ cur \in Nat /\ cur < Len(msg) /\ Len(msg) \in Nat /\ DOMAIN msg = 1..Len(msg)
      /\ cur' = q /\ msg' = msg /\ path' = Walk(path, alpha[q])
  BY MessageIs DEF IInv, TypeOK, Step, CanStep
<1>2. q \in 1..Len(msg) /\ cur \in 0..Len(msg)
  BY <1>1
<1>3. path' \in Seq(Letters \cup Others \cup {Nul})
  <2>1. alpha[q] \in Letters \cup Others \cup {Nul}
    BY <1>1, <1>2 DEF TypeOK
  <2>2. path \in Seq(Letters \cup Others \cup {Nul})
    BY <1>1 DEF TypeOK
  <2> QED BY <1>1, <2>1, <2>2 DEF Walk
<1>4. CASE Plain(cur)
  <2>1. path = SubSeq(msg, 1, cur) /\ ~Ended(path) /\ path \in Seq(Sign)
    BY <1>1, <1>2, <1>4, PlainPath DEF PathOK
  <2>2. path' = Append(path, alpha[q])
    BY <1>1, <2>1 DEF Walk
  <2>3. /\ alpha[q] = IF msg[q] \in Stops THEN Nul ELSE msg[q]
        /\ Plain(q) <=> msg[q] \notin Stops
    BY <1>1, <1>4, AlphaAt
  <2>4. CASE Plain(q)
    <3>1. Append(SubSeq(msg, 1, cur), msg[q]) = SubSeq(msg, 1, q)
      BY <1>1, PrefixGrows, MessageIs DEF TypeOK
    <3>2. path' = SubSeq(msg, 1, q)
      BY <2>1, <2>2, <2>3, <2>4, <3>1
    <3> QED BY <1>1, <1>3, <2>4, <3>2 DEF PathOK, Plain
  <2>5. CASE ~Plain(q)
    <3>1. path' = Append(path, Nul) /\ Nul \in Sign
      BY <2>2, <2>3, <2>5 DEF Sign
    <3>2. Ended(path')
      BY <2>1, <3>1, AppendProperties DEF Ended
    <3> QED BY <1>1, <1>3, <2>5, <3>2 DEF PathOK, Plain, Ended
  <2> QED BY <2>4, <2>5
<1>5. CASE ~Plain(cur)
  <2>1. Ended(path) /\ path' = path
    BY <1>1, <1>5 DEF PathOK, Walk
  <2>2. ~Plain(q)
    BY <1>1, <1>5 DEF Plain
  <2> QED BY <1>1, <1>3, <2>1, <2>2 DEF PathOK, Plain, Ended
<1> QED BY <1>4, <1>5

LEMMA StepIInv == ASSUME IInv, Step PROVE IInv'
<1> DEFINE q == cur + 1
<1>1. /\ TypeOK /\ IsAlphaOf(alpha, msg) /\ cur \in Nat /\ last \in Nat /\ last <= cur
      /\ cur < Len(msg) /\ Len(msg) \in Nat /\ ~found /\ ~done
      /\ cur' = q /\ found' = Terminal(path')
      /\ UNCHANGED <<keys, msg, alpha, last, prefix, lookups, done>>
  BY MessageIs DEF IInv, TypeOK, Step, CanStep
<1>2. PathOK' /\ path' \in Seq(Letters \cup Others \cup {Nul})
  BY StepPath
<1>3. q \in 0..Len(msg) /\ last \in 0..q /\ last < q
  BY <1>1
<1>4. Terminal(path') \in BOOLEAN
  BY DEF Terminal, Walkable
<1>5. TypeOK'
  BY <1>1, <1>2, <1>3, <1>4 DEF TypeOK
<1>6. IsAlphaOf(alpha, msg)' /\ PrefixOK' /\ LookupsOK' /\ DoneOK'
  BY <1>1 DEF IInv, IsAlphaOf, Converted, PrefixOK, LookupsOK, TopicOrStopped, DoneOK
<1>7. FoundOK'
  BY <1>1, <1>3 DEF FoundOK, Terminal, Walkable, Ended
<1>8. Topics' = Topics
  BY <1>1 DEF Topics, StartsWith
<1>9. NothingMissed'
  <2> SUFFICES ASSUME NEW k \in Topics, Len(k) < q \/ (Len(k) = q /\ ~found')
               PROVE  LookedUp(k)
    BY <1>1, <1>8 DEF NothingMissed, LookedUp
  <2>1. /\ k \in Seq(Letters) /\ k \in keys /\ Len(k) \in Nat /\ Plain(Len(k))
        /\ SubSeq(msg, 1, Len(k)) = k
    BY <1>1, TopicIs
  <2>2. CASE Len(k) = q
    <3>1. path' = k
      BY <1>1, <1>2, <2>1, <2>2 DEF PathOK, Plain
    <3>2. ~Ended(k)
      BY <1>1, <1>3, <2>1, <2>2, PlainPath
    <3>3. Terminal(k)
      BY <2>1, <3>2, KeyTerminal DEF Terminal, Walkable
    <3> QED BY <1>1, <2>2, <3>1, <3>3
  <2>3. CASE Len(k) < q
    <3>1. Len(k) < cur \/ Len(k) = cur
      <4> DEFINE n == Len(k)
      <4>1. n \in Nat /\ n < q
        BY <2>1, <2>3
      <4> HIDE DEF n
      <4>2. n < cur \/ n = cur
        BY <1>1, <4>1
      <4> QED BY <4>2 DEF n
    <3> QED BY <1>1, <3>1 DEF IInv, NothingMissed
  <2> QED BY <2>2, <2>3
<1> QED BY <1>2, <1>5, <1>6, <1>7, <1>9 DEF IInv

(* The copy of the message is cut behind the name and nowhere before. *)
LEMMA LookupCut ==
  ASSUME IInv, Lookup
  PROVE  /\ prefix' \in Seq(Sign) /\ Len(prefix') = Len(msg) + 1
         /\ PrefixOK' /\ SubSeq(prefix', 1, cur) = SubSeq(msg, 1, cur)
<1> DEFINE n == Len(msg)
           p == SubSeq(prefix', 1, cur)
           s == SubSeq(msg, 1, cur)
<1>1. /\ TypeOK /\ n \in Nat /\ cur \in 0..n /\ last \in Nat /\ last < cur
      /\ prefix \in Seq(Sign) /\ Len(prefix) = n + 1
      /\ \A i \in 1..n : msg[i] \in Sign
      /\ prefix' = [prefix EXCEPT ![last + 1] = msg[last + 1], ![cur + 1] = Nul]
      /\ msg' = msg /\ last' = cur
  BY MessageIs DEF IInv, TypeOK, FoundOK, Lookup, Sign
<1>2. Nul \in Sign
  BY DEF Sign
<1>3. /\ \A i \in 1..n + 1 : prefix[i] =
           IF i = n + 1 \/ (i = last + 1 /\ last > 0) THEN Nul ELSE msg[i]
  BY DEF IInv, PrefixOK
<1>4. prefix \in [1..n + 1 -> Sign]
  BY <1>1, LenProperties
<1> HIDE DEF n
<1>5. /\ prefix' \in [1..n + 1 -> Sign]
      /\ \A i \in 1..n + 1 : prefix'[i] =
           IF i = cur + 1 THEN Nul ELSE IF i = last + 1 THEN msg[last + 1] ELSE prefix[i]
  <2>1. last + 1 \in 1..n
    BY <1>1
  <2> QED BY <1>1, <1>2, <1>4, <2>1
<1>6. prefix' \in Seq(Sign) /\ Len(prefix') = n + 1
  BY <1>1, <1>5
<1>7. \A i \in 1..n + 1 :
        prefix'[i] = IF i = n + 1 \/ (i = cur + 1 /\ cur > 0) THEN Nul ELSE msg[i]
  <2> TAKE i \in 1..n + 1
  <2>1. i = last + 1 => i # n + 1
    BY <1>1
  <2>2. cur > 0
    BY <1>1
  <2> QED BY <1>3, <1>5, <2>1, <2>2
<1>8. PrefixOK'
  BY <1>1, <1>7 DEF PrefixOK, n
<1>9. p = s
  <2>1. cur \in 0..Len(prefix')
    BY <1>1, <1>6
  <2>2. p \in Seq(Sign) /\ Len(p) = cur /\ \A i \in 1..cur : p[i] = prefix'[i]
    BY <1>6, <2>1, PrefixIs
  <2>3. s \in Seq(Sign) /\ Len(s) = cur /\ \A i \in 1..cur : s[i] = msg[i]
    BY <1>1, PlainPath DEF n
  <2> HIDE DEF p, s
  <2>4. \A i \in 1..cur : p[i] = s[i]
    <3> TAKE i \in 1..cur
    <3>1. i \in 1..n + 1 /\ i # n + 1 /\ i # cur + 1
      BY <1>1
    <3> QED BY <1>7, <2>2, <2>3, <3>1
  <2> QED BY <2>2, <2>3, <2>4, SeqEqual
<1> QED BY <1>6, <1>8, <1>9 DEF n

(* What is looked up is a topic, or a name the trie does not know. *)
LEMMA FoundName ==
  ASSUME IInv, found
  PROVE  TopicOrStopped(SubSeq(msg, 1, cur))
<1> DEFINE s == SubSeq(msg, 1, cur)
<1>1. TypeOK /\ PathOK /\ Terminal(path) /\ cur \in 0..Len(msg)
  BY DEF IInv, FoundOK, TypeOK
<1>2. /\ s \in Seq(Sign) /\ Len(s) = cur /\ ~Ended(s)
      /\ \A i \in 1..cur : s[i] = msg[i] /\ s[i] # Nul
  BY <1>1, PlainPath
<1>3. CASE Plain(cur)
  <2>1. path = s
    BY <1>1, <1>3 DEF PathOK
  <2>2. PICK k \in keys : StartsWith(Append(k, Nul), Append(s, Nul))
    BY <1>1, <1>2, <2>1 DEF Terminal, Walkable
  <2>3. k \in Seq(Letters)
    BY <1>1, KeyAssumption DEF TypeOK
  <2> HIDE DEF s
  <2>4. s = k
    BY <1>2, <2>2, <2>3, TerminalIsKey
  <2> QED BY <2>4 DEF TopicOrStopped, s
<1>4. CASE ~Plain(cur)
  <2>1. PICK j \in 1..cur : msg[j] \in Stops
    BY <1>4 DEF Plain
  <2> HIDE DEF s
  <2>2. j \in DOMAIN s
    BY <1>2, LenProperties
  <2> QED BY <1>2, <2>1, <2>2 DEF TopicOrStopped, s
<1> QED BY <1>3, <1>4

LEMMA LookupIInv == ASSUME IInv, Lookup PROVE IInv'
<1> DEFINE s == SubSeq(msg, 1, cur)
           n == Len(lookups)
<1>1. /\ TypeOK /\ IsAlphaOf(alpha, msg) /\ found /\ ~done
      /\ cur \in Nat /\ last \in Nat /\ last < cur /\ cur \in 0..Len(msg)
      /\ last' = cur /\ found' = FALSE
      /\ UNCHANGED <<keys, msg, alpha, path, cur, done>>
  BY MessageIs DEF IInv, TypeOK, FoundOK, DoneOK, Lookup
<1>2. /\ prefix' \in Seq(Sign) /\ Len(prefix') = Len(msg) + 1
      /\ PrefixOK' /\ lookups' = Append(lookups, s)
  BY LookupCut DEF Lookup
<1>3. s \in Seq(Chars) /\ Len(s) = cur
  BY <1>1, PlainPath
<1>4. TopicOrStopped(s)
  BY <1>1, FoundName
<1>5. lookups \in Seq(Seq(Chars)) /\ n \in Nat /\ DOMAIN lookups = 1..n
  BY <1>1, LenProperties DEF TypeOK
<1> HIDE DEF s
<1>6. /\ lookups' \in Seq(Seq(Chars)) /\ Len(lookups') = n + 1
      /\ (\A i \in 1..n : lookups'[i] = lookups[i]) /\ lookups'[n + 1] = s
  BY <1>2, <1>3, <1>5, AppendProperties
<1>7. DOMAIN lookups' = 1..n + 1
  BY <1>6, LenProperties
<1> HIDE DEF n
<1>8. TypeOK'
  <2>1. cur' \in 0..Len(msg') /\ last' \in 0..cur'
    BY <1>1
  <2>2. prefix' \in Seq(Chars \cup {Nul}) /\ Len(prefix') = Len(msg') + 1
    BY <1>1, <1>2 DEF Sign
  <2> QED BY <1>1, <1>6, <2>1, <2>2 DEF TypeOK
<1>9. IsAlphaOf(alpha, msg)' /\ PathOK' /\ FoundOK' /\ DoneOK'
  BY <1>1 DEF IInv, IsAlphaOf, Converted, PathOK, Plain, Ended, FoundOK, DoneOK
<1>10. LookupsOK'
  <2>1. ASSUME NEW i \in 1..n + 1
        PROVE  /\ Len(lookups'[i]) \in 1..cur
               /\ lookups'[i] = SubSeq(msg, 1, Len(lookups'[i]))
               /\ TopicOrStopped(lookups'[i])
    <3>1. CASE i = n + 1
      <4>1. cur \in 1..cur
        BY <1>1
      <4> QED BY <1>3, <1>4, <1>6, <3>1, <4>1 DEF s
    <3>2. CASE i # n + 1
      <4>1. i \in 1..n
        BY <1>5, <3>2
      <4>2. /\ Len(lookups[i]) \in 1..last /\ TopicOrStopped(lookups[i])
            /\ lookups[i] = SubSeq(msg, 1, Len(lookups[i]))
        BY <1>5, <4>1 DEF IInv, LookupsOK
      <4>3. Len(lookups[i]) \in 1..cur
        BY <1>1, <4>2
      <4> QED BY <1>6, <4>1, <4>2, <4>3
    <3> QED BY <3>1, <3>2
  <2>2. ASSUME NEW i \in 1..n + 1, NEW j \in 1..n + 1, i < j
        PROVE  Len(lookups'[i]) < Len(lookups'[j])
    <3>1. i \in 1..n
      BY <1>5, <2>2
    <3>2. Len(lookups[i]) \in 1..last /\ lookups'[i] = lookups[i]
      BY <1>5, <1>6, <3>1 DEF IInv, LookupsOK
    <3>3. CASE j = n + 1
      BY <1>1, <1>3, <1>6, <3>2, <3>3
    <3>4. CASE j # n + 1
      <4>1. j \in 1..n
        BY <1>5, <3>4
      <4> QED BY <1>5, <1>6, <2>2, <3>1, <4>1 DEF IInv, LookupsOK
    <3> QED BY <3>3, <3>4
  <2> QED BY <1>1, <1>7, <2>1, <2>2 DEF LookupsOK, TopicOrStopped
<1>11. NothingMissed'
  <2> SUFFICES ASSUME NEW k \in Topics, Len(k) < cur \/ Len(k) = cur
               PROVE  \E i \in 1..n + 1 : lookups'[i] = k
    BY <1>1, <1>7 DEF NothingMissed, LookedUp, Topics, StartsWith
  <2>1. CASE Len(k) = cur
    <3>1. s = k
      BY <1>1, <2>1, TopicIs DEF s
    <3>2. n + 1 \in 1..n + 1
      BY <1>5
    <3> QED BY <1>6, <3>1, <3>2
  <2>2. CASE Len(k) < cur
    <3>1. PICK i \in 1..n : lookups[i] = k
      BY <1>5, <2>2 DEF IInv, NothingMissed, LookedUp
    <3>2. i \in 1..n + 1
      BY <1>5
    <3> QED BY <1>6, <3>1, <3>2
  <2> QED BY <2>1, <2>2
<1> QED BY <1>2, <1>8, <1>9, <1>10, <1>11 DEF IInv

(* The walk ends only where no topic of the message goes on. *)
LEMMA FinishIInv == ASSUME IInv, Finish PROVE IInv'
<1>1. /\ TypeOK /\ IsAlphaOf(alpha, msg) /\ PathOK /\ ~found /\ ~done /\ ~CanStep
      /\ cur \in Nat /\ cur \in 0..Len(msg) /\ Len(msg) \in Nat /\ done' = TRUE
      /\ UNCHANGED <<keys, msg, alpha, path, cur, last, prefix, found, lookups>>
  BY MessageIs DEF IInv, TypeOK, Finish
<1>2. ASSUME NEW k \in Topics PROVE Len(k) <= cur
  <2>1. /\ k \in Seq(Letters) /\ k \in keys /\ Len(k) \in Nat /\ Len(k) <= Len(msg)
        /\ Plain(Len(k)) /\ \A i \in 1..Len(k) : msg[i] = k[i] /\ k[i] \in Letters
        /\ \A p \in 0..Len(k) : SubSeq(msg, 1, p) = SubSeq(k, 1, p)
    BY <1>1, TopicIs
  <2> SUFFICES ASSUME cur < Len(k) PROVE FALSE
    BY <1>1, <2>1
  <2>2. cur < Len(msg) /\ cur \in 0..Len(k) /\ cur + 1 \in 1..Len(k)
    BY <1>1, <2>1
  <2>3. Plain(cur) /\ msg[cur + 1] = k[cur + 1] /\ k[cur + 1] \in Letters
    BY <1>1, <2>1, <2>2 DEF Plain
  <2>4. alpha[cur + 1] = k[cur + 1]
    BY <1>1, <2>2, <2>3, AlphaAt, CharAssumption
  <2>5. path = SubSeq(k, 1, cur) /\ ~Ended(path)
    BY <1>1, <2>1, <2>2, <2>3, PlainPath DEF PathOK
  <2>6. StartsWith(Append(k, Nul), Append(path, alpha[cur + 1]))
    BY <1>1, <2>1, <2>4, <2>5, KeyWalkable
  <2>7. Walkable(path, alpha[cur + 1])
    BY <2>1, <2>5, <2>6 DEF Walkable
  <2> QED BY <1>1, <2>2, <2>7 DEF CanStep
<1>3. DoneOK'
  BY <1>1, <1>2 DEF DoneOK, Topics, StartsWith
<1> QED
  BY <1>1, <1>3
  DEF IInv, TypeOK, IsAlphaOf, Converted, PathOK, Plain, Ended, PrefixOK, FoundOK,
      Terminal, Walkable, LookupsOK, TopicOrStopped, NothingMissed, LookedUp, Topics,
      StartsWith

LEMMA NextIInv == IInv /\ [Next]_vars => IInv'
<1> SUFFICES ASSUME IInv, [Next]_vars PROVE IInv'
  OBVIOUS
<1>1. CASE Step
  BY <1>1, StepIInv
<1>2. CASE Lookup
  BY <1>2, LookupIInv
<1>3. CASE Finish
  BY <1>3, FinishIInv
<1>4. CASE UNCHANGED vars
  BY <1>4
  DEF vars, IInv, TypeOK, IsAlphaOf, Converted, PathOK, Plain, Ended, PrefixOK, FoundOK,
      Terminal, Walkable, LookupsOK, TopicOrStopped, NothingMissed, LookedUp, Topics,
      StartsWith, DoneOK
<1> QED BY <1>1, <1>2, <1>3, <1>4 DEF Next

-----------------------------------------------------------------------------
(***************************************************************************)
(* The walk keeps its bounds: it never leaves the message, and last never  *)
(* passes it, whatever bytes the message is made of.                       *)
(***************************************************************************)
THEOREM TypeCorrect == Spec => []TypeOK
<1>1. IInv => TypeOK
  BY DEF IInv
<1> QED BY InitIInv, NextIInv, <1>1, PTL DEF Spec

(***************************************************************************)
(* Every name a publish looks up is a prefix of the message, each longer   *)
(* than the one before.                                                    *)
(***************************************************************************)
THEOREM LookupsArePrefixes == Spec => []LooksUpPrefixes
<1>1. IInv => LooksUpPrefixes
  <2> SUFFICES ASSUME IInv, NEW i \in DOMAIN lookups
               PROVE  lookups[i] # <<>> /\ StartsWith(msg, lookups[i])
    BY DEF LooksUpPrefixes, IInv, LookupsOK
  <2> DEFINE w == lookups[i]
  <2>1. /\ Len(w) \in 1..last /\ w = SubSeq(msg, 1, Len(w))
        /\ last \in 0..cur /\ cur \in 0..Len(msg) /\ Len(msg) \in Nat
    BY MessageIs DEF IInv, LookupsOK, TypeOK
  <2>2. Len(w) <= Len(msg)
    BY <2>1
  <2>3. w # <<>>
    BY <2>1
  <2> QED BY <2>1, <2>2, <2>3 DEF StartsWith
<1> QED BY InitIInv, NextIInv, <1>1, PTL DEF Spec

(***************************************************************************)
(* A publish that has ended has looked up every topic the message starts   *)
(* with, and besides only names that are no topics.                        *)
(***************************************************************************)
THEOREM EveryTopicFound == Spec => []FindsEveryTopic
<1>1. IInv => FindsEveryTopic
  <2> SUFFICES ASSUME IInv, done PROVE FindsEveryTopic
    BY DEF FindsEveryTopic
  <2>1. ASSUME NEW k \in keys \ {<<>>}, StartsWith(msg, k)
        PROVE  \E i \in DOMAIN lookups : lookups[i] = k
    <3>1. k \in Topics
      BY <2>1 DEF Topics
    <3>2. Len(k) \in Nat /\ cur \in Nat /\ Len(k) <= cur /\ ~found
      BY <3>1, TopicIs DEF IInv, DoneOK, TypeOK
    <3>3. Len(k) < cur \/ (Len(k) = cur /\ ~found)
      BY <3>2
    <3> QED BY <3>1, <3>3 DEF IInv, NothingMissed, LookedUp
  <2>2. \A i \in DOMAIN lookups :
          lookups[i] \in keys \/ \E j \in DOMAIN lookups[i] : lookups[i][j] \in Stops
    BY DEF IInv, LookupsOK, TopicOrStopped
  <2> QED BY <2>1, <2>2 DEF FindsEveryTopic
<1> QED BY InitIInv, NextIInv, <1>1, PTL DEF Spec

=============================================================================
