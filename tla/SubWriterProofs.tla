-------------------------- MODULE SubWriterProofs ---------------------------
(***************************************************************************)
(* Proofs about SubWriter: the reply buffer never overflows, and EV_WRITE  *)
(* is registered exactly while bytes wait, for all messages and all sizes  *)
(* of the reply buffer and the socket's.                                   *)
(***************************************************************************)
EXTENDS SubWriterHistory, ReplyOpsProofs, SequenceTheorems

-----------------------------------------------------------------------------
(* The three invariants are inductive together: none needs strengthening,  *)
(* but WriteInterest needs the type of c.                                  *)
IInv == TypeOK /\ WbufInBounds /\ WriteInterest

LEMMA InitIInv == Init => IInv
<1> SUFFICES ASSUME Init PROVE IInv
  OBVIOUS
<1>1. <<>> \in Seq(Unit) /\ Len(<<>>) = 0
  OBVIOUS
<1>2. TypeOK
  <2>1. 0 \in 0..SockLen
    BY SockAssumption
  <2>2. c \in Replies
    BY NoReplyType DEF Init
  <2> QED BY <2>1, <2>2 DEF Init, TypeOK
<1>3. WbufInBounds /\ WriteInterest
  BY <1>1, NoReplyType, WbufAssumption DEF Init, WbufInBounds, WriteInterest
<1> QED BY <1>2, <1>3 DEF IInv

LEMMA NextIInv == IInv /\ [Next]_vars => IInv'
<1> SUFFICES ASSUME IInv, [Next]_vars PROVE IInv'
  OBVIOUS
<1>1. /\ c \in Replies /\ Len(c.wbuf) \in Nat
      /\ WbufLen \in Nat /\ SockLen \in Nat /\ sock \in 0..SockLen
  BY SockAssumption, WbufAssumption DEF IInv, TypeOK, Replies
<1>2. ASSUME Replied(c', c), UNCHANGED <<sock, alive>>, asked' \in BOOLEAN
      PROVE  IInv'
  <2>1. TypeOK'
    BY <1>2 DEF IInv, TypeOK, Replied, Replies
  <2>2. WbufInBounds'
    BY <1>2 DEF IInv, WbufInBounds, Replied
  <2>3. WriteInterest'
    BY <1>2 DEF WriteInterest, Replied
  <2> QED BY <2>1, <2>2, <2>3 DEF IInv
<1>3. ASSUME UNCHANGED c, sock' \in 0..SockLen, asked' \in BOOLEAN, alive' \in BOOLEAN
      PROVE  IInv'
  BY <1>3 DEF IInv, TypeOK, WbufInBounds, WriteInterest
<1>4. ASSUME NEW m \in Msgs, QueueBulk(m) PROVE IInv'
  <2>1. Replied(c', c)
    BY <1>1, <1>4, BulkReplied DEF QueueBulk
  <2> QED BY <1>2, <1>4, <2>1 DEF QueueBulk, IInv, TypeOK
<1>5. CASE PeerSend
  BY <1>1, <1>3, <1>5 DEF PeerSend, IInv, TypeOK
<1>6. CASE ReadCommand
  <2>1. PICK op \in Ops : c' = Answer(op, c)
    BY <1>6 DEF ReadCommand
  <2>2. Replied(c', c)
    BY <1>1, <2>1, AnswerReplied
  <2> QED BY <1>2, <1>6, <2>2 DEF ReadCommand
<1>7. CASE SendAll
  <2>1. sock' \in 0..SockLen
    BY <1>1, <1>7 DEF SendAll, Room
  <2>2. c' \in Replies /\ c'.wbuf = <<>> /\ c'.write = FALSE
    BY <1>7, NoReplyType DEF SendAll
  <2>3. TypeOK'
    BY <1>7, <2>1, <2>2 DEF SendAll, IInv, TypeOK, Replies
  <2>4. WbufInBounds' /\ WriteInterest'
    BY <1>1, <2>2 DEF WbufInBounds, WriteInterest
  <2> QED BY <2>3, <2>4 DEF IInv
<1>8. CASE SendPart
  BY <1>1, <1>3, <1>8 DEF SendPart, IInv, TypeOK
<1>9. CASE SendError
  BY <1>1, <1>3, <1>9 DEF SendError, IInv, TypeOK
<1>10. CASE PeerRead
  <2>1. sock' \in 0..SockLen
    BY <1>1, <1>10 DEF PeerRead
  <2> QED BY <1>3, <1>10, <2>1 DEF PeerRead, IInv, TypeOK
<1>11. CASE UNCHANGED vars
  BY <1>1, <1>3, <1>11 DEF vars, IInv, TypeOK
<1> QED
  BY <1>4, <1>5, <1>6, <1>7, <1>8, <1>9, <1>10, <1>11 DEF Next

(***************************************************************************)
(* The type invariant of the reply path, for every size of the buffers.    *)
(***************************************************************************)
THEOREM TypeCorrect == Spec => []TypeOK
<1>1. IInv => TypeOK
  BY DEF IInv
<1> QED BY InitIInv, NextIInv, <1>1, PTL DEF Spec

(***************************************************************************)
(* No sequence of replies, sends and EAGAINs puts more into wbuf than      *)
(* SUB_WRITE_BUF_LEN.                                                      *)
(***************************************************************************)
THEOREM BufferBounded == Spec => []WbufInBounds
<1>1. IInv => WbufInBounds
  BY DEF IInv
<1> QED BY InitIInv, NextIInv, <1>1, PTL DEF Spec

(***************************************************************************)
(* EV_WRITE is set exactly while replies wait: no reply is forgotten, and  *)
(* send_reply_to_subcli never reads its uninitialised nwritelen.           *)
(***************************************************************************)
THEOREM InterestExact == Spec => []WriteInterest
<1>1. IInv => WriteInterest
  BY DEF IInv
<1> QED BY InitIInv, NextIInv, <1>1, PTL DEF Spec

-----------------------------------------------------------------------------
(* The replies as they are appended. *)

LEMMA UnitConcat ==
  ASSUME NEW s \in Seq(Unit), NEW t \in Seq(Unit), NEW u \in Seq(Unit)
  PROVE  (s \o t) \o u = s \o (t \o u)
  BY ConcatAssociative

LEMMA UnitLen ==
  ASSUME NEW s \in Seq(Unit), NEW t \in Seq(Unit)
  PROVE  /\ s \o t \in Seq(Unit)
         /\ Len(s \o t) = Len(s) + Len(t) /\ Len(s) \in Nat /\ Len(t) \in Nat
  BY ConcatProperties

(* x continues d: what waits in d waits at the front of x. *)
Continues(x, d) == x \in Replies /\ \E s \in Seq(Unit) : x.wbuf = d.wbuf \o s

LEMMA AddReplyAppends ==
  ASSUME NEW d \in Replies, NEW s \in Seq(Unit)
  PROVE  /\ Continues(AddReply(d, s), d)
         /\ Len(s) <= WbufLen - Len(d.wbuf) => AddReply(d, s).wbuf = d.wbuf \o s
<1> DEFINE e == PrepareToWrite(d)
<1>1. e \in Replies /\ e.wbuf = d.wbuf /\ d.wbuf \in Seq(Unit)
  BY DEF Replies, PrepareToWrite
<1>2. Len(s) \in Nat /\ Len(d.wbuf) \in Nat /\ WbufLen \in Nat
  BY <1>1, LenProperties, WbufAssumption
<1>3. CASE Len(s) > WbufLen - Len(e.wbuf)
  <2>1. AddReply(d, s) = e
    BY <1>3 DEF AddReply, AddReplyToBuf
  <2>2. e.wbuf = d.wbuf \o <<>> /\ <<>> \in Seq(Unit)
    BY <1>1, ConcatEmptySeq
  <2>3. ~(Len(s) <= WbufLen - Len(d.wbuf))
    BY <1>1, <1>2, <1>3
  <2> QED BY <1>1, <2>1, <2>2, <2>3 DEF Continues
<1>4. CASE ~(Len(s) > WbufLen - Len(e.wbuf))
  <2>1. AddReply(d, s) = [e EXCEPT !.wbuf = e.wbuf \o s]
    BY <1>4 DEF AddReply, AddReplyToBuf
  <2>2. AddReply(d, s).wbuf = d.wbuf \o s
    BY <1>1, <2>1 DEF Replies
  <2>3. AddReply(d, s) \in Replies
    BY AddReplyExtends DEF Extends
  <2> QED BY <2>2, <2>3 DEF Continues
<1> QED BY <1>3, <1>4

LEMMA ContinuesTransitive ==
  ASSUME NEW d \in Replies, NEW x, NEW y, Continues(x, d), Continues(y, x)
  PROVE  Continues(y, d)
<1>1. d.wbuf \in Seq(Unit)
  BY DEF Replies
<1>2. PICK s \in Seq(Unit) : x.wbuf = d.wbuf \o s
  BY DEF Continues
<1>3. PICK t \in Seq(Unit) : y.wbuf = x.wbuf \o t
  BY DEF Continues
<1>4. (d.wbuf \o s) \o t = d.wbuf \o (s \o t) /\ s \o t \in Seq(Unit)
  BY <1>1, UnitConcat, UnitLen
<1>5. y.wbuf = d.wbuf \o (s \o t)
  BY <1>2, <1>3, <1>4
<1> QED BY <1>4, <1>5 DEF Continues

(* The last piece t of a reply, when there is room for s, the pieces      *)
(* before it, and for t: y is d with s appended.                           *)
LEMMA AddLast ==
  ASSUME NEW d \in Replies, NEW y \in Replies, NEW s \in Seq(Unit), NEW t \in Seq(Unit)
  PROVE  /\ Len(s) <= WbufLen - Len(d.wbuf) => y.wbuf = d.wbuf \o s
         /\ Len(s \o t) <= WbufLen - Len(d.wbuf)
         => AddReply(y, t).wbuf = d.wbuf \o (s \o t)
<1>1. d.wbuf \in Seq(Unit) /\ WbufLen \in Nat
  BY WbufAssumption DEF Replies
<1>2. Len(s \o t) = Len(s) + Len(t) /\ Len(s) \in Nat /\ Len(t) \in Nat
  BY UnitLen
<1>3. Len(d.wbuf \o s) = Len(d.wbuf) + Len(s) /\ Len(d.wbuf) \in Nat
  BY <1>1, UnitLen
<1>4. Len(s \o t) <= WbufLen - Len(d.wbuf) =>
        Len(s) <= WbufLen - Len(d.wbuf) /\ Len(t) <= WbufLen - Len(d.wbuf \o s)
  <2> DEFINE a == Len(s)  b == Len(t)  l == Len(d.wbuf)
             ab == Len(s \o t)  la == Len(d.wbuf \o s)
  <2>1. a \in Nat /\ b \in Nat /\ l \in Nat /\ ab = a + b /\ la = l + a
    BY <1>2, <1>3
  <2> HIDE DEF a, b, l, ab, la
  <2>2. ab <= WbufLen - l => a <= WbufLen - l /\ b <= WbufLen - la
    BY <1>1, <2>1
  <2> QED BY <2>2 DEF a, b, l, ab, la
<1> SUFFICES ASSUME Len(s) <= WbufLen - Len(d.wbuf) => y.wbuf = d.wbuf \o s,
                    Len(s \o t) <= WbufLen - Len(d.wbuf)
             PROVE  AddReply(y, t).wbuf = d.wbuf \o (s \o t)
  OBVIOUS
<1>5. y.wbuf = d.wbuf \o s /\ Len(t) <= WbufLen - Len(y.wbuf)
  BY <1>4
<1>6. AddReply(y, t).wbuf = y.wbuf \o t
  BY <1>5, AddReplyAppends
<1>7. (d.wbuf \o s) \o t = d.wbuf \o (s \o t)
  BY <1>1, UnitConcat
<1> QED BY <1>5, <1>6, <1>7

(* Two pieces that fit together are both accepted. *)
LEMMA AddTwo ==
  ASSUME NEW d \in Replies, NEW s \in Seq(Unit), NEW t \in Seq(Unit),
         Len(s \o t) <= WbufLen - Len(d.wbuf)
  PROVE  AddReply(AddReply(d, s), t).wbuf = d.wbuf \o (s \o t)
<1>1. /\ AddReply(d, s) \in Replies
      /\ Len(s) <= WbufLen - Len(d.wbuf) => AddReply(d, s).wbuf = d.wbuf \o s
  BY AddReplyAppends DEF Continues
<1> QED BY <1>1, AddLast

(***************************************************************************)
(* A bulk reply continues the buffer, and with room for all of it appends  *)
(* its frame.                                                              *)
(***************************************************************************)
LEMMA BulkAppends ==
  ASSUME NEW d \in Replies, NEW m \in Msgs
  PROVE  /\ Continues(AddReplyBulk(d, m), d)
         /\ BulkFrame(m) \in Seq(Unit)
         /\ Len(BulkFrame(m)) <= WbufLen - Len(d.wbuf) =>
              AddReplyBulk(d, m).wbuf = d.wbuf \o BulkFrame(m)
<1> DEFINE x == AddReply(d, BulkLen(m))
           y == AddReply(x, Payload(m))
           z == AddReply(y, BulkEnd(m))
           head == BulkLen(m) \o Payload(m)
<1>1. /\ BulkLen(m) \in Seq(Unit) /\ Payload(m) \in Seq(Unit)
      /\ BulkEnd(m) \in Seq(Unit)
  BY Pieces DEF FirstPiece
<1>2. Continues(x, d) /\ x \in Replies
  BY <1>1, AddReplyAppends DEF Continues
<1>3. Continues(y, x) /\ y \in Replies
  BY <1>1, <1>2, AddReplyAppends DEF Continues
<1>4. Continues(z, y)
  BY <1>1, <1>3, AddReplyAppends
<1>5. Continues(z, d)
  <2> HIDE DEF x, y, z
  <2> QED BY <1>2, <1>3, <1>4, ContinuesTransitive
<1>6. head \in Seq(Unit) /\ BulkFrame(m) = head \o BulkEnd(m)
  BY <1>1, ConcatProperties DEF BulkFrame
<1>7. BulkFrame(m) \in Seq(Unit)
  BY <1>1, <1>6, ConcatProperties
<1>8. ASSUME Len(BulkFrame(m)) <= WbufLen - Len(d.wbuf)
      PROVE  z.wbuf = d.wbuf \o BulkFrame(m)
  <2>1. Len(head) <= WbufLen - Len(d.wbuf) => y.wbuf = d.wbuf \o head
    BY <1>1, AddTwo
  <2>2. Len(head \o BulkEnd(m)) <= WbufLen - Len(d.wbuf)
    BY <1>6, <1>8
  <2>3. z.wbuf = d.wbuf \o (head \o BulkEnd(m))
    <3> HIDE DEF head, y
    <3> QED BY <1>1, <1>3, <1>6, <2>1, <2>2, AddLast, ZenonT(30)
  <2> HIDE DEF head, z
  <2> QED BY <1>6, <2>3
<1> QED BY <1>5, <1>7, <1>8 DEF AddReplyBulk

LEMMA AnswerAppends ==
  ASSUME NEW d \in Replies, NEW op \in Ops
  PROVE  /\ Continues(Answer(op, d), d)
         /\ AnswerFrame(op) \in Seq(Unit)
         /\ Len(AnswerFrame(op)) <= WbufLen - Len(d.wbuf) =>
              Answer(op, d).wbuf = d.wbuf \o AnswerFrame(op)
<1>1. \A t \in Texts : Text(t) \in Seq(Unit)
  BY Pieces DEF FirstPiece
<1>2. \A t, u \in Texts :
        /\ Continues(AddReply(AddReply(d, Text(t)), Text(u)), d)
        /\ Text(t) \o Text(u) \in Seq(Unit)
  <2> TAKE t, u \in Texts
  <2>1. Continues(AddReply(d, Text(t)), d) /\ AddReply(d, Text(t)) \in Replies
    BY <1>1, AddReplyAppends DEF Continues
  <2>2. Continues(AddReply(AddReply(d, Text(t)), Text(u)), AddReply(d, Text(t)))
    BY <1>1, <2>1, AddReplyAppends
  <2> QED BY <1>1, <2>1, <2>2, ContinuesTransitive, ConcatProperties
<1>3. CASE op = "ping"
  <2>1. Answer(op, d) = AddReply(d, Text("+PONG")) /\ AnswerFrame(op) = Text("+PONG")
    BY <1>3 DEF Answer, AnswerFrame
  <2> QED BY <1>1, <2>1, AddReplyAppends DEF Texts
<1>4. ASSUME NEW t \in Texts,
             Answer(op, d) = AddReply(AddReply(d, Text(t)), Text("crlf")),
             AnswerFrame(op) = Text(t) \o Text("crlf")
      PROVE  /\ Continues(Answer(op, d), d)
             /\ AnswerFrame(op) \in Seq(Unit)
             /\ Len(AnswerFrame(op)) <= WbufLen - Len(d.wbuf) =>
                  Answer(op, d).wbuf = d.wbuf \o AnswerFrame(op)
  <2>1. Text(t) \in Seq(Unit) /\ Text("crlf") \in Seq(Unit)
    BY <1>1 DEF Texts
  <2>2. Len(AnswerFrame(op)) <= WbufLen - Len(d.wbuf) =>
          Answer(op, d).wbuf = d.wbuf \o AnswerFrame(op)
    BY <1>4, <2>1, AddTwo, ZenonT(30)
  <2> QED BY <1>2, <1>4, <2>2 DEF Texts
<1>5. CASE op = "subscribe"
  BY <1>4, <1>5 DEF Answer, AnswerFrame, Texts
<1>6. CASE op = "unsubscribe"
  BY <1>4, <1>6 DEF Answer, AnswerFrame, Texts
<1>7. CASE op = "unknown"
  <2> DEFINE head == Text("-ERR ") \o Text("why")
             y == AddReply(AddReply(d, Text("-ERR ")), Text("why"))
             z == AddReply(y, Text("crlf"))
  <2>1. /\ Answer(op, d) = z /\ AnswerFrame(op) = head \o Text("crlf")
    BY <1>7 DEF Answer, AnswerFrame
  <2>2. /\ Continues(y, d) /\ y \in Replies /\ head \in Seq(Unit)
        /\ Text("crlf") \in Seq(Unit) /\ Text("-ERR ") \in Seq(Unit)
        /\ Text("why") \in Seq(Unit)
    BY <1>1, <1>2 DEF Texts, Continues
  <2>3. Continues(z, d)
    <3>1. Continues(z, y)
      BY <2>2, AddReplyAppends
    <3> HIDE DEF y, z
    <3> QED BY <2>2, <3>1, ContinuesTransitive
  <2>4. head \o Text("crlf") \in Seq(Unit)
    <3> HIDE DEF head
    <3> QED BY <2>2, ConcatProperties
  <2>5. ASSUME Len(head \o Text("crlf")) <= WbufLen - Len(d.wbuf)
        PROVE  z.wbuf = d.wbuf \o (head \o Text("crlf"))
    <3>1. Len(head) <= WbufLen - Len(d.wbuf) => y.wbuf = d.wbuf \o head
      BY <2>2, AddTwo
    <3> HIDE DEF head, y
    <3> QED BY <2>2, <2>5, <3>1, AddLast
  <2> HIDE DEF z, head
  <2> QED BY <2>1, <2>3, <2>4, <2>5
<1> QED BY <1>3, <1>5, <1>6, <1>7 DEF Ops

-----------------------------------------------------------------------------
(* Sequences of whole replies. *)

LEMMA FramesType == \A fr \in Frames : fr \in Seq(Unit)
  BY BulkAppends, AnswerAppends, NoReplyType DEF Frames

(* s is whole replies and nothing else. *)
WholeFrames(s) ==
  \E starts \in SUBSET (0..Len(s)) :
    /\ 0 \in starts /\ Len(s) \in starts
    /\ \A n \in starts \ {Len(s)} : \E fr \in Frames :
         FoundAt(fr, s, n) /\ n + Len(fr) \in starts

LEMMA WholeAppend ==
  ASSUME NEW s \in Seq(Unit), NEW fr \in Frames, WholeFrames(s)
  PROVE  WholeFrames(s \o fr)
<1> DEFINE t == s \o fr
           S == Len(s)
           F == Len(fr)
           T == Len(t)
<1>1. S \in Nat /\ F \in Nat /\ T = S + F /\ DOMAIN fr = 1..F
  BY FramesType, UnitLen, LenProperties
<1>2. \A i \in 1..S + F : t[i] = IF i <= S THEN s[i] ELSE fr[i - S]
  BY FramesType, ConcatProperties
<1>3. PICK starts \in SUBSET (0..S) :
        /\ 0 \in starts /\ S \in starts
        /\ \A n \in starts \ {S} : \E g \in Frames :
             FoundAt(g, s, n) /\ n + Len(g) \in starts
  BY DEF WholeFrames
<1>4. \A n \in starts, g \in Frames : FoundAt(g, s, n) =
        \A i \in DOMAIN g : n + i <= S => s[n + i] = g[i]
  BY DEF FoundAt
<1>5. \A n \in starts \cup {T}, g \in Frames : FoundAt(g, t, n) =
        \A i \in DOMAIN g : n + i <= T => t[n + i] = g[i]
  BY DEF FoundAt
<1>6. \A g \in Frames : Len(g) \in Nat /\ DOMAIN g = 1..Len(g)
  BY FramesType, LenProperties
<1> HIDE DEF t, S, F, T
<1> DEFINE more == starts \cup {T}
<1>7. more \in SUBSET (0..T) /\ 0 \in more /\ T \in more
  BY <1>1, <1>3
<1>8. ASSUME NEW n \in more \ {T}
      PROVE  \E g \in Frames : FoundAt(g, t, n) /\ n + Len(g) \in more
  <2>1. CASE n = S
    <3>1. ASSUME NEW i \in DOMAIN fr PROVE t[n + i] = fr[i]
      <4>1. n + i \in 1..S + F /\ ~(n + i <= S) /\ (n + i) - S = i
        BY <1>1, <2>1
      <4> QED BY <1>2, <4>1
    <3>2. FoundAt(fr, t, n)
      BY <1>5, <3>1
    <3> QED BY <1>1, <2>1, <3>2 DEF F
  <2>2. CASE n # S
    <3>1. PICK g \in Frames : FoundAt(g, s, n) /\ n + Len(g) \in starts
      BY <1>3, <1>8, <2>2
    <3>2. n \in Nat /\ n + Len(g) <= S
      BY <1>1, <1>3, <1>8, <3>1
    <3>3. ASSUME NEW i \in DOMAIN g PROVE t[n + i] = g[i]
      <4>1. n + i <= S /\ n + i \in 1..S + F
        BY <1>1, <1>6, <3>2
      <4> QED BY <1>2, <1>4, <1>8, <3>1, <4>1
    <3> QED BY <1>5, <3>1, <3>3
  <2> QED BY <2>1, <2>2
<1> HIDE DEF more
<1> QED BY <1>7, <1>8 DEF WholeFrames, T, t

LEMMA PrefixOfWhole ==
  ASSUME NEW s \in Seq(Unit), NEW t \in Seq(Unit), WholeFrames(s \o t)
  PROVE  FramePrefix(s)
<1> DEFINE u == s \o t
<1>1. /\ Len(s) \in Nat /\ Len(t) \in Nat /\ Len(u) = Len(s) + Len(t)
      /\ \A i \in 1..Len(s) : u[i] = s[i]
  BY UnitLen, ConcatProperties
<1>2. PICK starts \in SUBSET (0..Len(u)) :
        /\ 0 \in starts
        /\ \A n \in starts \ {Len(u)} : \E fr \in Frames :
             FoundAt(fr, u, n) /\ n + Len(fr) \in starts
  BY DEF WholeFrames
<1> HIDE DEF u
<1> DEFINE begun == starts \cap (0..Len(s))
<1>3. begun \in SUBSET (0..Len(s)) /\ 0 \in begun
  BY <1>1, <1>2
<1>4. ASSUME NEW n \in begun
      PROVE  \E fr \in Frames : /\ FoundAt(fr, s, n)
                                /\ n + Len(fr) <= Len(s) => n + Len(fr) \in begun
  <2>1. CASE n = Len(u)
    <3> DEFINE fr == AnswerFrame("ping")
    <3>1. fr \in Frames /\ FirstPiece(fr)
      BY Pieces DEF Frames, Ops, AnswerFrame, Texts
    <3>2. Len(fr) = 1 /\ DOMAIN fr = 1..1
      BY <3>1, LenProperties DEF FirstPiece
    <3>3. n = Len(s) /\ n \in Nat
      BY <1>1, <2>1
    <3> HIDE DEF fr
    <3> QED BY <1>1, <3>1, <3>2, <3>3 DEF FoundAt
  <2>2. CASE n # Len(u)
    <3>1. PICK fr \in Frames : FoundAt(fr, u, n) /\ n + Len(fr) \in starts
      BY <1>2, <2>2
    <3>2. fr \in Seq(Unit) /\ Len(fr) \in Nat /\ DOMAIN fr = 1..Len(fr) /\ n \in Nat
      BY <3>1, FramesType, LenProperties
    <3>3. ASSUME NEW i \in DOMAIN fr, n + i <= Len(s)
          PROVE  s[n + i] = fr[i]
      <4>1. n + i \in 1..Len(s) /\ n + i <= Len(u)
        BY <1>1, <3>2, <3>3
      <4> QED BY <1>1, <3>1, <4>1 DEF FoundAt
    <3>4. FoundAt(fr, s, n)
      BY <3>3 DEF FoundAt
    <3>5. n + Len(fr) <= Len(s) => n + Len(fr) \in begun
      BY <1>1, <3>1, <3>2
    <3> QED BY <3>1, <3>4, <3>5
  <2> QED BY <2>1, <2>2
<1> HIDE DEF begun
<1> QED BY <1>3, <1>4 DEF FramePrefix

-----------------------------------------------------------------------------
(***************************************************************************)
(* The record, with what the properties say of it and two facts more: the  *)
(* places counted as written by complete sends are places in the stream,   *)
(* and while every reply had room the accepted units end where one ends.   *)
(***************************************************************************)
KeptOf(l) == [i \in DOMAIN l.whole |-> l.out[l.whole[i]]]

RecordOK(l, w) ==
  /\ l \in Log
  /\ \A i \in DOMAIN l.whole : l.whole[i] \in DOMAIN l.out
  /\ \A i, j \in DOMAIN l.whole : i < j => l.whole[i] < l.whole[j]
  /\ KeptOf(l) \o w = l.accepted
  /\ ~l.cut => l.out \o w = l.accepted
  /\ ~l.refused => WholeFrames(l.accepted)

HInv == IInv /\ (Recording => RecordOK(log, c.wbuf))

LEMMA KeptType ==
  ASSUME NEW l \in Log, \A i \in DOMAIN l.whole : l.whole[i] \in DOMAIN l.out
  PROVE  /\ KeptOf(l) \in Seq(Unit) /\ Len(KeptOf(l)) = Len(l.whole)
         /\ \A i \in 1..Len(l.whole) : KeptOf(l)[i] = l.out[l.whole[i]]
<1>1. l.whole \in Seq(Nat) /\ l.out \in Seq(Unit)
  BY DEF Log
<1>2. /\ Len(l.whole) \in Nat /\ DOMAIN l.whole = 1..Len(l.whole)
      /\ l.out \in [DOMAIN l.out -> Unit]
  BY <1>1, LenProperties
<1>3. KeptOf(l) \in [1..Len(l.whole) -> Unit]
  BY <1>2 DEF KeptOf
<1> QED BY <1>2, <1>3 DEF KeptOf

(* A reply is appended: r when it had no room as a whole. *)
LEMMA RecordAppend ==
  ASSUME NEW l, NEW w \in Seq(Unit), RecordOK(l, w),
         NEW s \in Seq(Unit), NEW r, ~r => s \in Frames
  PROVE  RecordOK([l EXCEPT !.accepted = @ \o s, !.refused = @ \/ r], w \o s)
<1> DEFINE k == [l EXCEPT !.accepted = @ \o s, !.refused = @ \/ r]
<1>1. l \in Log /\ l.accepted \in Seq(Unit) /\ l.out \in Seq(Unit)
  BY DEF RecordOK, Log
<1>2. l.accepted \o s \in Seq(Unit)
  BY <1>1, UnitLen
<1>3. /\ k \in Log /\ k.accepted = l.accepted \o s /\ k.refused = (l.refused \/ r)
      /\ k.out = l.out /\ k.whole = l.whole /\ k.cut = l.cut
  BY <1>1, <1>2 DEF Log
<1>4. KeptOf(l) \in Seq(Unit)
  BY <1>1, KeptType DEF RecordOK
<1>5. KeptOf(k) = KeptOf(l)
  BY <1>3 DEF KeptOf
<1> HIDE DEF k
<1>6. KeptOf(k) \o (w \o s) = k.accepted
  <2>1. (KeptOf(l) \o w) \o s = KeptOf(l) \o (w \o s)
    BY <1>4, UnitConcat
  <2> QED BY <1>3, <1>5, <2>1 DEF RecordOK
<1>7. ~k.cut => k.out \o (w \o s) = k.accepted
  <2>1. (l.out \o w) \o s = l.out \o (w \o s)
    BY <1>1, UnitConcat
  <2> QED BY <1>3, <2>1 DEF RecordOK
<1>8. ~k.refused => WholeFrames(k.accepted)
  BY <1>1, <1>3, WholeAppend DEF RecordOK
<1> QED BY <1>3, <1>6, <1>7, <1>8 DEF RecordOK, k

(* n places among the first o of a stream, and the m behind them. *)
LEMMA PlacesGrow ==
  ASSUME NEW n \in Nat, NEW m \in Nat, NEW o \in Nat, NEW old, NEW new,
         \A i \in 1..n : old[i] \in 1..o,
         \A i, j \in 1..n : i < j => old[i] < old[j],
         \A i \in 1..n + m : new[i] = IF i <= n THEN old[i] ELSE o + (i - n)
  PROVE  /\ \A i \in 1..n + m : new[i] \in 1..o + m
         /\ \A i, j \in 1..n + m : i < j => new[i] < new[j]
<1>1. ASSUME NEW i \in 1..n + m PROVE new[i] \in 1..o + m
  <2>1. CASE i <= n
    <3>1. new[i] = old[i] /\ old[i] \in 1..o
      BY <2>1
    <3> QED BY <3>1
  <2>2. CASE i > n
    BY <2>2
  <2> QED BY <2>1, <2>2
<1>2. ASSUME NEW i \in 1..n + m, NEW j \in 1..n + m, i < j PROVE new[i] < new[j]
  <2>1. CASE j <= n
    BY <1>2, <2>1
  <2>2. CASE i <= n /\ j > n
    <3>1. new[i] = old[i] /\ old[i] \in 1..o /\ new[j] = o + (j - n)
      BY <2>2
    <3> QED BY <2>2, <3>1
  <2>3. CASE i > n
    <3>1. new[i] = o + (i - n) /\ new[j] = o + (j - n)
      BY <1>2, <2>3
    <3> QED BY <1>2, <3>1
  <2> QED BY <2>1, <2>2, <2>3
<1> QED BY <1>1, <1>2

(* The stream s, o long, with the m units of w behind it, at those places. *)
LEMMA PlacesRead ==
  ASSUME NEW n \in Nat, NEW m \in Nat, NEW o \in Nat, NEW old, NEW new,
         NEW s, NEW w, NEW x,
         \A i \in 1..n : old[i] \in 1..o,
         \A i \in 1..n + m : new[i] = IF i <= n THEN old[i] ELSE o + (i - n),
         \A i \in 1..o + m : x[i] = IF i <= o THEN s[i] ELSE w[i - o]
  PROVE  \A i \in 1..n + m : x[new[i]] = IF i <= n THEN s[old[i]] ELSE w[i - n]
<1> TAKE i \in 1..n + m
<1>1. CASE i <= n
  <2>1. new[i] = old[i] /\ old[i] \in 1..o
    BY <1>1
  <2>2. old[i] \in 1..o + m /\ old[i] <= o
    BY <2>1
  <2> QED BY <1>1, <2>1, <2>2
<1>2. CASE i > n
  <2> DEFINE j == o + (i - n)
  <2>1. new[i] = j /\ j \in 1..o + m /\ ~(j <= o) /\ j - o = i - n
    BY <1>2
  <2> HIDE DEF j
  <2>2. x[j] = w[j - o]
    BY <2>1
  <2> QED BY <1>2, <2>1, <2>2
<1> QED BY <1>1, <1>2

(* Everything that waits is sent. *)
LEMMA RecordAll ==
  ASSUME NEW l, NEW w \in Seq(Unit), RecordOK(l, w)
  PROVE  RecordOK([l EXCEPT !.out = @ \o w,
                            !.whole = @ \o [i \in DOMAIN w |-> Len(l.out) + i]], <<>>)
<1> DEFINE places == [i \in DOMAIN w |-> Len(l.out) + i]
           k == [l EXCEPT !.out = @ \o w, !.whole = @ \o places]
           n == Len(l.whole)
           m == Len(w)
           o == Len(l.out)
<1>1. /\ l \in Log /\ l.accepted \in Seq(Unit) /\ l.out \in Seq(Unit)
      /\ l.whole \in Seq(Nat)
  BY DEF RecordOK, Log
<1>2. /\ o \in Nat /\ n \in Nat /\ m \in Nat /\ DOMAIN w = 1..m
      /\ DOMAIN l.whole = 1..n /\ DOMAIN l.out = 1..o
  BY <1>1, LenProperties
<1>3. places \in Seq(Nat) /\ Len(places) = m /\ \A i \in 1..m : places[i] = o + i
  <2>1. places \in [1..m -> Nat]
    BY <1>2
  <2> QED BY <1>2, <2>1
<1> HIDE DEF places
<1>4. /\ l.out \o w \in Seq(Unit) /\ Len(l.out \o w) = o + m
      /\ \A i \in 1..o + m : (l.out \o w)[i] = IF i <= o THEN l.out[i] ELSE w[i - o]
  BY <1>1, ConcatProperties
<1>5. /\ l.whole \o places \in Seq(Nat) /\ Len(l.whole \o places) = n + m
      /\ \A i \in 1..n + m :
           (l.whole \o places)[i] = IF i <= n THEN l.whole[i] ELSE places[i - n]
  <2> DEFINE q == Len(places)
  <2>1. /\ l.whole \o places \in Seq(Nat) /\ Len(l.whole \o places) = n + q
        /\ \A i \in 1..n + q :
             (l.whole \o places)[i] = IF i <= n THEN l.whole[i] ELSE places[i - n]
    BY <1>1, <1>3, ConcatProperties, ZenonT(30)
  <2>2. q = m
    BY <1>3
  <2> HIDE DEF q, n, m
  <2> QED BY <2>1, <2>2
<1>6. /\ k \in Log /\ k.accepted = l.accepted /\ k.refused = l.refused
      /\ k.out = l.out \o w /\ k.whole = l.whole \o places /\ k.cut = l.cut
  BY <1>1, <1>4, <1>5 DEF Log
<1>7. DOMAIN k.whole = 1..n + m /\ DOMAIN k.out = 1..o + m /\ Len(k.whole) = n + m
  BY <1>4, <1>5, <1>6, LenProperties
<1>8. /\ \A i \in 1..n : l.whole[i] \in 1..o
      /\ \A i, j \in 1..n : i < j => l.whole[i] < l.whole[j]
  BY <1>2 DEF RecordOK
<1>9. KeptOf(l) \in Seq(Unit) /\ Len(KeptOf(l)) = n
  BY <1>1, KeptType DEF RecordOK
<1> HIDE DEF k, n, m, o
<1>10. \A i \in 1..n + m : k.whole[i] = IF i <= n THEN l.whole[i] ELSE o + (i - n)
  <2> TAKE i \in 1..n + m
  <2>1. i > n => i - n \in 1..m
    BY <1>2
  <2> QED BY <1>2, <1>3, <1>5, <1>6, <2>1, SMTT(30)
<1>11. /\ \A i \in 1..n + m : k.whole[i] \in 1..o + m
       /\ \A i, j \in 1..n + m : i < j => k.whole[i] < k.whole[j]
  BY <1>2, <1>8, <1>10, PlacesGrow
<1>12. KeptOf(k) = KeptOf(l) \o w
  <2>1. /\ KeptOf(k) \in Seq(Unit) /\ Len(KeptOf(k)) = n + m
        /\ \A i \in 1..n + m : KeptOf(k)[i] = k.out[k.whole[i]]
    BY <1>6, <1>7, <1>11, KeptType
  <2>2. /\ KeptOf(l) \o w \in Seq(Unit) /\ Len(KeptOf(l) \o w) = n + m
        /\ \A i \in 1..n + m :
             (KeptOf(l) \o w)[i] = IF i <= n THEN KeptOf(l)[i] ELSE w[i - n]
    <3> DEFINE q == Len(KeptOf(l))
    <3>1. /\ KeptOf(l) \o w \in Seq(Unit) /\ Len(KeptOf(l) \o w) = q + Len(w)
          /\ \A i \in 1..q + Len(w) :
               (KeptOf(l) \o w)[i] = IF i <= q THEN KeptOf(l)[i] ELSE w[i - q]
      BY <1>9, ConcatProperties
    <3>2. q = n /\ Len(w) = m
      BY <1>9 DEF m
    <3> HIDE DEF q
    <3> QED BY <3>1, <3>2
  <2>3. \A i \in 1..o + m : k.out[i] = IF i <= o THEN l.out[i] ELSE w[i - o]
    BY <1>4, <1>6
  <2>4. \A i \in 1..n + m :
          k.out[k.whole[i]] = IF i <= n THEN l.out[l.whole[i]] ELSE w[i - n]
    BY <1>2, <1>8, <1>10, <2>3, PlacesRead, SMTT(30)
  <2>5. \A i \in 1..n : KeptOf(l)[i] = l.out[l.whole[i]]
    BY <1>2 DEF KeptOf
  <2>6. \A i \in 1..n + m : KeptOf(k)[i] = (KeptOf(l) \o w)[i]
    <3> TAKE i \in 1..n + m
    <3>1. i <= n => i \in 1..n
      BY <1>2
    <3> QED BY <2>1, <2>2, <2>4, <2>5, <3>1
  <2> QED BY <2>1, <2>2, <2>6, SeqEqual
<1>13. KeptOf(k) \o <<>> = k.accepted
  <2>1. KeptOf(k) \in Seq(Unit)
    BY <1>6, <1>7, <1>11, KeptType
  <2> QED BY <1>6, <1>12, <2>1, ConcatEmptySeq DEF RecordOK
<1>14. ~k.cut => k.out \o <<>> = k.accepted
  BY <1>4, <1>6, ConcatEmptySeq DEF RecordOK
<1> QED BY <1>6, <1>7, <1>11, <1>13, <1>14 DEF RecordOK, k, places

(* A send is cut short after the units p. *)
LEMMA RecordPart ==
  ASSUME NEW l, NEW w \in Seq(Unit), RecordOK(l, w), NEW p \in Seq(Unit)
  PROVE  RecordOK([l EXCEPT !.out = @ \o p, !.cut = TRUE], w)
<1> DEFINE k == [l EXCEPT !.out = @ \o p, !.cut = TRUE]
<1>1. /\ l \in Log /\ l.out \in Seq(Unit) /\ l.whole \in Seq(Nat)
      /\ \A i \in DOMAIN l.whole : l.whole[i] \in DOMAIN l.out
  BY DEF RecordOK, Log
<1>2. /\ l.out \o p \in Seq(Unit) /\ Len(l.out) \in Nat /\ Len(p) \in Nat
      /\ DOMAIN l.out = 1..Len(l.out) /\ DOMAIN (l.out \o p) = 1..Len(l.out) + Len(p)
      /\ \A i \in 1..Len(l.out) : (l.out \o p)[i] = l.out[i]
  BY <1>1, ConcatProperties, LenProperties
<1>3. /\ k \in Log /\ k.accepted = l.accepted /\ k.refused = l.refused
      /\ k.out = l.out \o p /\ k.whole = l.whole /\ k.cut = TRUE
  BY <1>1, <1>2 DEF Log
<1> HIDE DEF k
<1>4. \A i \in DOMAIN k.whole : k.whole[i] \in DOMAIN k.out
  BY <1>1, <1>2, <1>3
<1>5. KeptOf(k) = KeptOf(l)
  BY <1>1, <1>2, <1>3 DEF KeptOf
<1> QED BY <1>3, <1>4, <1>5 DEF RecordOK, k

-----------------------------------------------------------------------------
LEMMA RecordKeeps ==
  ASSUME NEW l, Record(l), Recording => RecordOK(l, c'.wbuf)
  PROVE  (Recording => RecordOK(log, c.wbuf))'
<1>1. log' = NoLog \/ (Recording /\ log' = l)
  BY DEF Record
<1> QED BY <1>1 DEF Recording

(* What the reply x adds to the buffer, as HQueue and HReadCommand see it. *)
LEMMA AddedIs ==
  ASSUME c \in Replies, Continues(c', c)
  PROVE  Added \in Seq(Unit) /\ c'.wbuf = c.wbuf \o Added
<1> DEFINE n == Len(c.wbuf)
<1>1. PICK s \in Seq(Unit) : c'.wbuf = c.wbuf \o s
  BY DEF Continues
<1> DEFINE m == Len(s)
           t == c.wbuf \o s
<1>2. /\ c.wbuf \in Seq(Unit) /\ n \in Nat /\ m \in Nat
      /\ t \in Seq(Unit) /\ Len(t) = n + m
  BY UnitLen DEF Replies
<1>3. \A i \in 1..n + m : t[i] = IF i <= n THEN c.wbuf[i] ELSE s[i - n]
  BY <1>2, ConcatProperties
<1>4. \A i \in n + 1 .. n + m : t[i] \in Unit
  BY <1>2, LenProperties
<1> HIDE DEF t, n, m
<1> DEFINE a == SubSeq(t, n + 1, n + m)
<1>5. /\ a \in Seq(Unit) /\ Len(a) = m
      /\ \A i \in 1..m : a[i] = t[n + i]
  <2>1. n + 1 \in Int /\ n + m \in Int
    BY <1>2
  <2>2. /\ a \in Seq(Unit)
        /\ Len(a) = IF n + 1 <= n + m THEN (n + m) - (n + 1) + 1 ELSE 0
        /\ \A i \in 1..(n + m) - (n + 1) + 1 : a[i] = t[(n + 1) + i - 1]
    BY <1>4, <2>1, SubSeqProperties
  <2> HIDE DEF a
  <2>3. (n + m) - (n + 1) + 1 = m /\ \A i \in 1..m : (n + 1) + i - 1 = n + i
    BY <1>2
  <2> QED BY <1>2, <2>2, <2>3
<1> HIDE DEF a
<1>6. \A i \in 1..m : a[i] = s[i]
  <2> TAKE i \in 1..m
  <2>1. n + i \in 1..n + m /\ ~(n + i <= n) /\ (n + i) - n = i
    BY <1>2
  <2> QED BY <1>3, <1>5, <2>1
<1>7. a = s
  BY <1>5, <1>6, SeqEqual DEF m
<1>8. Added = a
  BY <1>1, <1>2 DEF Added, a, n, t
<1> QED BY <1>1, <1>7, <1>8

LEMMA FrameAdded ==
  ASSUME c \in Replies, Continues(c', c), NEW fr \in Seq(Unit), c'.wbuf = c.wbuf \o fr
  PROVE  Added = fr
<1>1. c.wbuf \in Seq(Unit) /\ Added \in Seq(Unit) /\ c.wbuf \o Added = c.wbuf \o fr
  BY AddedIs DEF Replies
<1> QED BY <1>1, ConcatSimplifications

LEMMA InitHInv == HInit => HInv
<1> SUFFICES ASSUME HInit PROVE HInv
  OBVIOUS
<1>1. IInv /\ c.wbuf = <<>>
  BY InitIInv, NoReplyType DEF HInit, Init
<1> DEFINE l == [accepted |-> <<>>, out |-> <<>>, whole |-> <<>>,
                 cut |-> FALSE, refused |-> FALSE]
<1>2. <<>> \in Seq(Unit) /\ <<>> \in Seq(Nat) /\ DOMAIN <<>> = {} /\ Len(<<>>) = 0
  OBVIOUS
<1>3. l \in Log
  BY <1>2 DEF Log
<1>4. KeptOf(l) = <<>>
  BY <1>2 DEF KeptOf
<1>5. <<>> \o <<>> = <<>>
  BY <1>2, ConcatEmptySeq
<1>6. WholeFrames(<<>>)
  <2>1. {0} \in SUBSET (0..0)
    OBVIOUS
  <2> QED BY <1>2, <2>1 DEF WholeFrames
<1>7. RecordOK(l, <<>>)
  BY <1>2, <1>3, <1>4, <1>5, <1>6 DEF RecordOK
<1> QED BY <1>1, <1>7 DEF HInit, HInv

LEMMA NextHInv == HInv /\ [HNext]_hvars => HInv'
<1> SUFFICES ASSUME HInv, [HNext]_hvars PROVE HInv'
  OBVIOUS
<1>1. [HNext]_hvars => [Next]_vars
  BY DEF HNext, HQueue, HReadCommand, HSendAll, HSendPart, HOther, hvars, Next
<1>2. IInv /\ IInv' /\ c \in Replies /\ c.wbuf \in Seq(Unit)
  BY <1>1, NextIInv DEF HInv, IInv, TypeOK, Replies
<1>3. Recording => RecordOK(log, c.wbuf)
  BY DEF HInv
(* A reply that was appended as a whole, or refused in part.               *)
<1>4. ASSUME NEW r, Continues(c', c), ~r => Added \in Frames,
             Record([log EXCEPT !.accepted = @ \o Added, !.refused = @ \/ r])
      PROVE  HInv'
  <2>1. Added \in Seq(Unit) /\ c'.wbuf = c.wbuf \o Added
    BY <1>2, <1>4, AddedIs
  <2>2. Recording =>
          RecordOK([log EXCEPT !.accepted = @ \o Added, !.refused = @ \/ r], c'.wbuf)
    BY <1>2, <1>3, <1>4, <2>1, RecordAppend
  <2> QED BY <1>2, <1>4, <2>2, RecordKeeps DEF HInv
<1>5. ASSUME NEW m \in Msgs, HQueue(m) PROVE HInv'
  <2>1. c' = AddReplyBulk(c, m)
    BY <1>5 DEF HQueue, QueueBulk
  <2>2. Continues(c', c) /\ BulkFrame(m) \in Seq(Unit)
    BY <1>2, <2>1, BulkAppends
  <2>3. HasRoom(BulkFrame(m)) => Added = BulkFrame(m)
    <3>1. HasRoom(BulkFrame(m)) => c'.wbuf = c.wbuf \o BulkFrame(m)
      BY <1>2, <2>1, BulkAppends DEF HasRoom
    <3> QED BY <1>2, <2>2, <3>1, FrameAdded
  <2>4. BulkFrame(m) \in Frames
    BY DEF Frames
  <2> QED BY <1>4, <1>5, <2>2, <2>3, <2>4 DEF HQueue, HasRoom
<1>6. CASE HReadCommand
  <2> DEFINE fits == \E op \in Ops : c' = Answer(op, c) /\ HasRoom(AnswerFrame(op))
  <2>1. PICK op \in Ops : c' = Answer(op, c)
    BY <1>6 DEF HReadCommand, ReadCommand
  <2>2. Continues(c', c)
    BY <1>2, <2>1, AnswerAppends
  <2>3. ASSUME fits PROVE Added \in Frames
    <3>1. PICK o \in Ops : c' = Answer(o, c) /\ HasRoom(AnswerFrame(o))
      BY <2>3
    <3>2. AnswerFrame(o) \in Seq(Unit) /\ c'.wbuf = c.wbuf \o AnswerFrame(o)
      BY <1>2, <3>1, AnswerAppends DEF HasRoom
    <3>3. Added = AnswerFrame(o)
      BY <1>2, <2>2, <3>2, FrameAdded
    <3> QED BY <3>3 DEF Frames
  <2>4. Record([log EXCEPT !.accepted = @ \o Added, !.refused = @ \/ ~fits])
    BY <1>6 DEF HReadCommand
  <2> HIDE DEF fits
  <2> QED BY <1>4, <2>2, <2>3, <2>4
<1>7. CASE HSendAll
  <2> DEFINE l == [log EXCEPT !.out = @ \o c.wbuf,
                     !.whole = @ \o [i \in DOMAIN c.wbuf |-> Len(log.out) + i]]
  <2>1. Record(l) /\ c'.wbuf = <<>>
    BY <1>7, NoReplyType DEF HSendAll, SendAll
  <2>2. Recording => RecordOK(l, <<>>)
    BY <1>2, <1>3, RecordAll
  <2> HIDE DEF l
  <2> QED BY <1>2, <2>1, <2>2, RecordKeeps DEF HInv
<1>8. CASE HSendPart
  <2> DEFINE p == SubSeq(c.wbuf, 1, Room)
             l == [log EXCEPT !.out = @ \o p, !.cut = TRUE]
  <2>1. Record(l) /\ c' = c /\ Room \in 1..Len(c.wbuf) - 1
    BY <1>8 DEF HSendPart, SendPart
  <2>2. p \in Seq(Unit)
    <3>1. Room \in Int /\ 1 \in Int /\ \A i \in 1..Room : c.wbuf[i] \in Unit
      BY <1>2, <2>1, LenProperties
    <3> QED BY <3>1, SubSeqProperties
  <2> HIDE DEF p
  <2>3. Recording => RecordOK(l, c.wbuf)
    BY <1>2, <1>3, <2>2, RecordPart
  <2> HIDE DEF l
  <2> QED BY <1>2, <2>1, <2>3, RecordKeeps DEF HInv
<1>9. CASE HOther
  <2>1. c' = c /\ log' = log
    BY <1>9 DEF HOther, PeerSend, SendError, PeerRead
  <2> QED BY <1>2, <1>3, <2>1 DEF HInv, Recording
<1>10. CASE UNCHANGED hvars
  BY <1>2, <1>3, <1>10 DEF HInv, Recording, hvars, vars
<1> QED BY <1>5, <1>6, <1>7, <1>8, <1>9, <1>10 DEF HNext

(***************************************************************************)
(* Until a send is cut short the peer's stream and the buffer together are *)
(* what the buffer accepted: no unit is lost, repeated or out of order,    *)
(* for all messages, all sizes and however far the record goes.            *)
(***************************************************************************)
THEOREM StreamExact == HSpec => []ExactUntilCut
<1>1. HInv => ExactUntilCut
  BY DEF HInv, RecordOK, ExactUntilCut
<1> QED BY InitHInv, NextHInv, <1>1, PTL DEF HSpec

(***************************************************************************)
(* Whatever sends are cut short, the units of complete sends and those     *)
(* that wait are the accepted ones: retries repeat, and never lose.        *)
(***************************************************************************)
THEOREM StreamComplete == HSpec => []NothingLost
<1>1. HInv => NothingLost
  BY DEF HInv, RecordOK, NothingLost, Kept, KeptOf
<1> QED BY InitHInv, NextHInv, <1>1, PTL DEF HSpec

(***************************************************************************)
(* While every reply had room as a whole, what the buffer accepted, and    *)
(* what the peer got if no send was cut, is whole replies and the          *)
(* beginning of one, although the pieces are added one by one.             *)
(***************************************************************************)
THEOREM RepliesWhole == HSpec => []WholeWhileRoom
<1>1. HInv => WholeWhileRoom
  <2> SUFFICES ASSUME HInv, Recording, ~log.refused
               PROVE  /\ FramePrefix(log.accepted)
                      /\ ~log.cut => FramePrefix(log.out)
    BY DEF WholeWhileRoom
  <2>1. /\ log.accepted \in Seq(Unit) /\ log.out \in Seq(Unit) /\ c.wbuf \in Seq(Unit)
        /\ WholeFrames(log.accepted)
        /\ ~log.cut => log.out \o c.wbuf = log.accepted
    BY DEF HInv, RecordOK, Log, IInv, TypeOK, Replies
  <2>2. log.accepted \o <<>> = log.accepted /\ <<>> \in Seq(Unit)
    BY <2>1, ConcatEmptySeq
  <2>3. FramePrefix(log.accepted)
    <3>1. WholeFrames(log.accepted \o <<>>)
      BY <2>1, <2>2
    <3> QED BY <2>1, <2>2, <3>1, PrefixOfWhole
  <2>4. ~log.cut => FramePrefix(log.out)
    <3> SUFFICES ASSUME ~log.cut PROVE FramePrefix(log.out)
      OBVIOUS
    <3>1. WholeFrames(log.out \o c.wbuf)
      BY <2>1
    <3> QED BY <2>1, <3>1, PrefixOfWhole
  <2> QED BY <2>3, <2>4
<1> QED BY InitHInv, NextHInv, <1>1, PTL DEF HSpec

=============================================================================
