-------------------------------- MODULE Sds ---------------------------------
(***************************************************************************)
(* common/sds.c on common/zmalloc.c: the strings behind every read buffer  *)
(* of the broker.  A string's header has an unsigned len and free, its     *)
(* block the bytes; callers also write behind the string themselves and    *)
(* then move its end.  The functions mix unsigned int, int and size_t, so  *)
(* the widths are part of the model: IntMax stands for 2^31 - 1, and       *)
(* size_t has twice the bits of an int.                                    *)
(*                                                                         *)
(* What lies behind the end is not part of a string's value, but for       *)
(* whether the byte at the end is the terminator.  A string without it is  *)
(* not passed on as a C string.  zmalloc aborts when there is no memory.   *)
(***************************************************************************)
EXTENDS Integers, FiniteSets, SequencesExt

CONSTANTS
  Names,        \* variables that hold a string
  Texts,        \* byte strings callers pass
  Counts,       \* lengths callers pass
  IntMax,       \* the largest int
  MaxPrealloc,  \* SDS_MAX_PREALLOC
  Header,       \* sizeof(struct sdshdr)
  Word,         \* sizeof(long), PREFIX_SIZE
  NUL,          \* the byte 0
  NULL,         \* no string
  Memory        \* bound: bytes there are to allocate

Values  == 2 * (IntMax + 1)    \* the values of an int, signed or not
UIntMax == Values - 1

ASSUME WidthAssumption == IntMax \in Nat \ {0} /\ MaxPrealloc \in 1..IntMax
ASSUME TextAssumption == \A t \in Texts : t \in Seq(Range(t)) /\ Len(t) <= IntMax
ASSUME CountAssumption == Counts \subseteq 0..IntMax
ASSUME SizeAssumption == Word \in Nat \ {0} /\ Header \in Nat /\ Memory \in Nat
ASSUME NamesAssumption == IsFiniteSet(Names)

VARIABLES
  str,          \* str[n]: the string n points to, or NULL
  used_memory   \* zmalloc's count

vars == <<str, used_memory>>

UIntWide(n) == n % (2 * Values)       \* mutant: a bit more than the header has
UInt(n)  == n % Values
SizeT(n) == n % (Values * Values)
Int_(n)  == IF UInt(n) > IntMax THEN UInt(n) - Values ELSE UInt(n)

Bytes == (UNION {Range(t) : t \in Texts}) \cup {NUL}

(***************************************************************************)
(* text: the first len bytes.  ends: the byte behind them is NUL.          *)
(* size: the bytes the block has for the string.  bad: something was       *)
(* written behind the block, or an assertion failed.                       *)
(***************************************************************************)
String == [text : Seq(Bytes), free : 0..UIntMax, size : Nat, ends : BOOLEAN, bad : BOOLEAN]

ASSUME NullAssumption == NULL \notin String

Zeros(n) == [i \in 1..n |-> NUL]

(* s with t in its block from the start, a NUL behind t, and len and free. *)
Put(s, t, len, free) ==
  LET kept == UInt(len) IN
  [s EXCEPT !.text = SubSeq(t, 1, kept),
            !.free = UInt(free),
            !.ends = kept = Len(t) \/ t[kept + 1] = NUL,
            !.bad  = @ \/ Len(t) + 1 > s.size]

-----------------------------------------------------------------------------
(* The functions, each on the value s of a string. *)

Sdsnewlen(t) ==
  Put([text |-> <<>>, free |-> 0, size |-> Len(t) + 1, ends |-> TRUE, bad |-> FALSE],
      t, Len(t), 0)

MakeRoomForText(s, addlen) ==     \* mutant: forgets the terminator
  LET newlen == SizeT(Len(s.text) + addlen)
      room   == IF newlen < MaxPrealloc THEN 2 * newlen ELSE newlen + MaxPrealloc
  IN IF s.free >= addlen THEN s
     ELSE [s EXCEPT !.size = room, !.free = UInt(room - Len(s.text))]

SdsMakeRoomFor(s, addlen) ==
  LET newlen == SizeT(Len(s.text) + addlen)
      room   == IF newlen < MaxPrealloc THEN 2 * newlen ELSE newlen + MaxPrealloc
  IN IF s.free >= addlen THEN s
     ELSE [s EXCEPT !.size = room + 1, !.free = UInt(room - Len(s.text))]

SdsRemoveFreeSpace(s) == [s EXCEPT !.size = Len(s.text) + 1, !.free = 0]

(* t is what the caller has written behind the end. *)
SdsIncrLen(s, t, incr) ==
  LET len == Len(s.text) + incr IN
  [Put(s, SubSeq(s.text \o t, 1, len), len, s.free - incr)
     EXCEPT !.ends = TRUE,
            !.bad  = @ \/ (IF incr >= 0 THEN s.free < incr ELSE Len(s.text) < -incr)]

Sdscatlen(s, t) ==
  LET r == SdsMakeRoomFor(s, Len(t))
  IN Put(r, s.text \o t, Len(s.text) + Len(t), r.free - Len(t))

Sdsgrowzero(s, len) ==
  LET more == len - Len(s.text)
      r    == SdsMakeRoomFor(s, more)
  IN IF more <= 0 THEN s
     ELSE Put(r, s.text \o Zeros(more), len, Len(r.text) + r.free - len)

Sdscpylen(s, t) ==
  LET r == IF UInt(s.free + Len(s.text)) < Len(t)
             THEN SdsMakeRoomFor(s, SizeT(Len(t) - Len(s.text))) ELSE s
  IN Put(r, t, Len(t), UInt(r.free + Len(r.text)) - Len(t))

Shorten(s, t) == Put(s, t, Len(t), s.free + Len(s.text) - Len(t))

Sdsclear(s) == Shorten(s, <<>>)

(* len becomes strlen. *)
Sdsupdatelen(s) ==
  LET nul == SelectInSeq(s.text, LAMBDA b : b = NUL)
  IN IF nul = 0 THEN s ELSE Shorten(s, SubSeq(s.text, 1, nul - 1))

(* strchr finds the NUL of cset as well. *)
Sdstrim(s, cset) ==
  LET kept == {i \in DOMAIN s.text : s.text[i] \notin cset \cup {NUL}} IN
  Shorten(s, IF kept = {} THEN <<>> ELSE SubSeq(s.text, Min(kept), Max(kept)))

(* An index from the end: len is a size_t, its sum with i an int again. *)
FromEnd(i, len) == IF i >= 0 THEN i ELSE Max({Int_(len + i), 0})

BetweenExclusive(start, end) ==    \* mutant: start = end keeps nothing
  IF start >= end THEN 0 ELSE SizeT(Int_(end - start + 1))

Between(start, end) == IF start > end THEN 0 ELSE SizeT(Int_(end - start + 1))

Sdsrange(s, start, end) ==
  LET len    == Len(s.text)
      from   == FromEnd(start, len)
      to     == FromEnd(end, len)
      newlen == IF Between(from, to) = 0 \/ from >= Int_(len) THEN 0
                ELSE IF to >= Int_(len) THEN Between(from, Int_(len - 1))
                ELSE Between(from, to)
  IN IF len = 0 THEN s ELSE Shorten(s, SubSeq(s.text, from + 1, from + newlen))

-----------------------------------------------------------------------------
(* zmalloc: a block's size is kept before it and rounded up to words in    *)
(* used_memory.                                                            *)
Padded(n) == n + ((Word - (n % Word)) % Word)

ZMalloc(size)        == used_memory' = used_memory + Padded(size + Word)
ZFree(size)          == used_memory' = used_memory - Padded(size + Word)
ZReallocPrefix(old, size) ==       \* mutant: counts the prefix once more
  used_memory' = used_memory - Padded(old) + Padded(size + Word)
ZRealloc(old, size)  == used_memory' = used_memory - Padded(old) + Padded(size)

BlockOf(s) == Header + s.size

New(n, s) ==
  /\ str[n] = NULL
  /\ str' = [str EXCEPT ![n] = s]
  /\ ZMalloc(BlockOf(s))
  /\ used_memory' <= Memory

Become(n, s) ==
  /\ str' = [str EXCEPT ![n] = s]
  /\ IF s.size = str[n].size THEN UNCHANGED used_memory
                             ELSE ZRealloc(BlockOf(str[n]), BlockOf(s))
  /\ used_memory' <= Memory

-----------------------------------------------------------------------------
Create(n, t)     == New(n, Sdsnewlen(t))
CreateZero(n, c) == New(n, Sdsnewlen(Zeros(c)))
Dup(n, m)        == New(n, Sdsnewlen(str[m].text))
Free(n) ==
  /\ str' = [str EXCEPT ![n] = NULL]
  /\ ZFree(BlockOf(str[n]))

CatLen(n, t)     == Become(n, Sdscatlen(str[n], t))
CatSds(n, m)     == n # m /\ Become(n, Sdscatlen(str[n], str[m].text))
CpyLen(n, t)     == Become(n, Sdscpylen(str[n], t))
GrowZero(n, c)   == Become(n, Sdsgrowzero(str[n], c))
RemoveFree(n)    == Become(n, SdsRemoveFreeSpace(str[n]))
Clear(n)         == Become(n, Sdsclear(str[n]))
TrimBy(n, b)     == Become(n, Sdstrim(str[n], {b}))
KeepRange(n, i, j) == Become(n, Sdsrange(str[n], i, j))

(* The read handlers: make room for c bytes, read up to c of them behind   *)
(* the end, move the end behind what came; the room stays when none came.  *)
ReadNothing(n, c) == Become(n, SdsMakeRoomFor(str[n], c))
ReadInto(n, c, t) ==
  /\ Len(t) <= c
  /\ Become(n, SdsIncrLen(SdsMakeRoomFor(str[n], c), t, Len(t)))

CutRight(n, c) ==
  /\ c <= Len(str[n].text)
  /\ Become(n, SdsIncrLen(str[n], <<>>, -c))

(* A caller has written a NUL at i, or cuts at a NUL that is there. *)
UpdateLen(n, i) ==
  /\ str[n].ends
  /\ i \in DOMAIN str[n].text
  /\ Become(n, Sdsupdatelen([str[n] EXCEPT !.text[i] = NUL]))

-----------------------------------------------------------------------------
Live    == {n \in Names : str[n] # NULL}
Indices == -(IntMax + 1)..IntMax

Init ==
  /\ str = [n \in Names |-> NULL]
  /\ used_memory = 0

Next ==
  \/ \E n \in Names \ Live, t \in Texts : Create(n, t)
  \/ \E n \in Names \ Live, c \in Counts : CreateZero(n, c)
  \/ \E n \in Names \ Live, m \in Live : Dup(n, m)
  \/ \E n \in Live : Free(n)
  \/ \E n \in Live, t \in Texts : CatLen(n, t)
  \/ \E n, m \in Live : CatSds(n, m)
  \/ \E n \in Live, t \in Texts : CpyLen(n, t)
  \/ \E n \in Live, c \in Counts : GrowZero(n, c)
  \/ \E n \in Live : RemoveFree(n)
  \/ \E n \in Live : Clear(n)
  \/ \E n \in Live, b \in Bytes : TrimBy(n, b)
  \/ \E n \in Live, i, j \in Indices : KeepRange(n, i, j)
  \/ \E n \in Live, c \in Counts : ReadNothing(n, c)
  \/ \E n \in Live, c \in Counts, t \in Texts : ReadInto(n, c, t)
  \/ \E n \in Live, c \in Counts : CutRight(n, c)
  \/ \E n \in Live, i \in 1..UIntMax : UpdateLen(n, i)

Spec == Init /\ [][Next]_vars

-----------------------------------------------------------------------------
(* A length never exceeds an unsigned int, nor used_memory the memory.     *)
TypeOK ==
  /\ \A n \in Live : /\ str[n] \in String
                     /\ Len(str[n].text) <= UIntMax
  /\ used_memory \in 0..Memory

(* No sequence of calls, with lengths that wrap included, writes behind a  *)
(* block or fails an assertion of sdsIncrLen; len + free + 1 is the size   *)
(* of the block, but for multiples of Values that sds forgets, never more. *)
Fits ==
  \A n \in Live :
    /\ ~str[n].bad
    /\ \E lost \in 0..str[n].size :
         Len(str[n].text) + str[n].free + 1 = str[n].size - lost * Values

(***************************************************************************)
(* The comment of sdsrange: what is kept is the bytes from start to end,   *)
(* for every two ints, a negative one counted from the end but never       *)
(* before the first byte.  The comment says it of every string, the code   *)
(* does it for those as long as an int can say: (signed)len is negative    *)
(* beyond, and a longer string becomes empty.                              *)
(***************************************************************************)
KeepsRange ==
  \A n \in Live, i, j \in Indices :
    LET text  == str[n].text
        at(k) == IF k >= 0 THEN k ELSE IF -k > Len(text) THEN 0 ELSE Len(text) + k
        kept  == {k \in DOMAIN text : at(i) < k /\ k <= at(j) + 1}
    IN Len(text) <= IntMax =>
         Sdsrange(str[n], i, j).text = SubSeq(text, at(i) + 1, at(i) + Cardinality(kept))

(* zmalloc counts every live block once, with its prefix, rounded up.      *)
Accounted ==
  used_memory = FoldFunction(+, 0, [n \in Live |-> Padded(BlockOf(str[n]) + Word)])
=============================================================================
