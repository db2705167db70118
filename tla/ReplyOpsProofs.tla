--------------------------- MODULE ReplyOpsProofs ---------------------------
(***************************************************************************)
(* Lemmas about add_reply and the replies built from it.                   *)
(***************************************************************************)
EXTENDS ReplyOps, TLAPS

LEMMA NoReplyType ==
  NoReply \in Replies /\ NoReply.wbuf = <<>> /\ NoReply.write = FALSE
<1>1. ASSUME NEW w \in Seq(Unit)
      PROVE  [wbuf |-> w, write |-> FALSE] \in Replies
  BY DEF Replies
<1>2. <<>> \in Seq(Unit)
  OBVIOUS
<1> QED BY <1>1, <1>2 DEF NoReply

(* The reply state x after a piece was added to d. *)
Extends(x, d) ==
  /\ x \in Replies
  /\ x.write
  /\ d.wbuf # <<>> => x.wbuf # <<>>
  /\ Len(d.wbuf) <= WbufLen => Len(x.wbuf) <= WbufLen

(* A piece that may be the first of a reply: it fits into an empty buffer. *)
FirstPiece(s) == s \in Seq(Unit) /\ Len(s) = 1

(***************************************************************************)
(* add_reply keeps the buffer within its bound and never empties it.       *)
(***************************************************************************)
LEMMA AddReplyExtends ==
  ASSUME NEW d \in Replies, NEW s \in Seq(Unit)
  PROVE  Extends(AddReply(d, s), d)
<1> DEFINE e == PrepareToWrite(d)
<1>1. e \in Replies /\ e.write /\ e.wbuf = d.wbuf
  BY DEF Replies, PrepareToWrite
<1>2. CASE Len(s) > WbufLen - Len(e.wbuf)
  <2>1. AddReply(d, s) = e
    BY <1>2 DEF AddReply, AddReplyToBuf
  <2> QED BY <1>1, <2>1 DEF Extends
<1>3. CASE ~(Len(s) > WbufLen - Len(e.wbuf))
  <2> DEFINE x == [e EXCEPT !.wbuf = e.wbuf \o s]
  <2>1. AddReply(d, s) = x
    BY <1>3 DEF AddReply, AddReplyToBuf
  <2>2. x \in Replies /\ x.write /\ x.wbuf = d.wbuf \o s
    <3> HIDE DEF e
    <3>1. e.wbuf \o s \in Seq(Unit)
      BY <1>1 DEF Replies
    <3>2. x \in Replies
      BY <1>1, <3>1 DEF Replies
    <3> QED BY <1>1, <3>2 DEF Replies
  <2>3. Len(d.wbuf) \in Nat /\ Len(s) \in Nat /\ d.wbuf \in Seq(Unit)
    BY DEF Replies
  <2>4. Len(d.wbuf \o s) = Len(d.wbuf) + Len(s)
    BY <2>3
  <2>5. d.wbuf # <<>> => d.wbuf \o s # <<>>
    BY <2>3, <2>4
  <2>6. Len(d.wbuf \o s) <= WbufLen
    BY <1>1, <1>3, <2>3, <2>4, WbufAssumption
  <2> QED BY <2>1, <2>2, <2>5, <2>6 DEF Extends
<1> QED BY <1>2, <1>3

(***************************************************************************)
(* After the first piece of a reply the buffer is not empty: either the    *)
(* piece fitted, or it was refused because something was there already.    *)
(***************************************************************************)
LEMMA FirstPieceWaits ==
  ASSUME NEW d \in Replies, NEW s, FirstPiece(s)
  PROVE  AddReply(d, s).wbuf # <<>>
<1> DEFINE e == PrepareToWrite(d)
<1>1. e \in Replies /\ e.wbuf = d.wbuf
  BY DEF Replies, PrepareToWrite
<1>2. s \in Seq(Unit) /\ Len(s) = 1 /\ d.wbuf \in Seq(Unit)
  BY DEF FirstPiece, Replies
<1>3. CASE d.wbuf = <<>>
  <2>1. ~(Len(s) > WbufLen - Len(e.wbuf))
    BY <1>1, <1>2, <1>3, WbufAssumption
  <2>2. AddReply(d, s) = [e EXCEPT !.wbuf = e.wbuf \o s]
    BY <2>1 DEF AddReply, AddReplyToBuf
  <2>3. AddReply(d, s).wbuf = d.wbuf \o s
    BY <1>1, <2>2 DEF Replies
  <2>4. Len(d.wbuf \o s) = 1
    BY <1>2, <1>3
  <2> QED BY <2>3, <2>4
<1>4. CASE d.wbuf # <<>>
  BY <1>2, <1>4, AddReplyExtends DEF Extends
<1> QED BY <1>3, <1>4

LEMMA Pieces ==
  /\ \A m \in Msgs : /\ FirstPiece(BulkLen(m)) /\ FirstPiece(BulkEnd(m))
                     /\ Payload(m) \in Seq(Unit)
  /\ \A t \in Texts : FirstPiece(Text(t))
<1>1. ASSUME NEW m \in Msgs
      PROVE  /\ FirstPiece(BulkLen(m)) /\ FirstPiece(BulkEnd(m))
             /\ Payload(m) \in Seq(Unit)
  <2>1. <<"len", m>> \in Unit /\ <<"end", m>> \in Unit /\ <<"data", m>> \in Unit
    BY DEF Unit
  <2>2. Size[m] \in Nat
    BY SizeAssumption, WbufAssumption
  <2>3. FirstPiece(BulkLen(m)) /\ FirstPiece(BulkEnd(m))
    BY <2>1 DEF FirstPiece, BulkLen, BulkEnd
  <2>4. Payload(m) \in [1..Size[m] -> Unit]
    BY <2>1 DEF Payload
  <2> QED BY <2>2, <2>3, <2>4
<1>2. ASSUME NEW t \in Texts PROVE FirstPiece(Text(t))
  <2>1. <<"text", t>> \in Unit
    BY DEF Unit
  <2> QED BY <2>1 DEF FirstPiece, Text
<1> QED BY <1>1, <1>2

-----------------------------------------------------------------------------
(* What every reply does: it keeps the bound and leaves bytes to send. *)
Replied(x, d) ==
  /\ x \in Replies
  /\ x.write
  /\ x.wbuf # <<>>
  /\ Len(d.wbuf) <= WbufLen => Len(x.wbuf) <= WbufLen

LEMMA BulkReplied ==
  ASSUME NEW d \in Replies, NEW m \in Msgs
  PROVE  Replied(AddReplyBulk(d, m), d)
<1> DEFINE x == AddReply(d, BulkLen(m))
           y == AddReply(x, Payload(m))
           z == AddReply(y, BulkEnd(m))
<1>1. /\ FirstPiece(BulkLen(m)) /\ BulkLen(m) \in Seq(Unit)
      /\ Payload(m) \in Seq(Unit) /\ BulkEnd(m) \in Seq(Unit)
  BY Pieces DEF FirstPiece
<1>2. Extends(x, d) /\ x.wbuf # <<>>
  BY <1>1, AddReplyExtends, FirstPieceWaits
<1>3. Extends(y, x)
  BY <1>1, <1>2, AddReplyExtends DEF Extends
<1>4. Extends(z, y)
  BY <1>1, <1>3, AddReplyExtends DEF Extends
<1>5. AddReplyBulk(d, m) = z
  BY DEF AddReplyBulk
<1> QED BY <1>2, <1>3, <1>4, <1>5 DEF Replied, Extends

LEMMA AnswerReplied ==
  ASSUME NEW d \in Replies, NEW op \in Ops
  PROVE  Replied(Answer(op, d), d)
<1>1. ASSUME NEW s, FirstPiece(s)
      PROVE  Replied(AddReply(d, s), d)
  BY <1>1, AddReplyExtends, FirstPieceWaits DEF Replied, Extends, FirstPiece
<1>2. ASSUME NEW x, Replied(x, d), NEW s \in Seq(Unit)
      PROVE  Replied(AddReply(x, s), d)
  BY <1>2, AddReplyExtends DEF Replied, Extends
<1>3. \A t \in Texts : FirstPiece(Text(t)) /\ Text(t) \in Seq(Unit)
  BY Pieces DEF FirstPiece
<1>4. CASE op = "ping"
  BY <1>1, <1>3, <1>4 DEF Answer, Texts
<1>5. CASE op = "subscribe"
  <2>1. Replied(AddReply(d, Text("+subscribe")), d)
    BY <1>1, <1>3 DEF Texts
  <2> QED BY <1>2, <1>3, <1>5, <2>1 DEF Answer, Texts
<1>6. CASE op = "unsubscribe"
  <2>1. Replied(AddReply(d, Text("+unsubscribe")), d)
    BY <1>1, <1>3 DEF Texts
  <2> QED BY <1>2, <1>3, <1>6, <2>1 DEF Answer, Texts
<1>7. CASE op = "unknown"
  <2>1. Replied(AddReply(d, Text("-ERR ")), d)
    BY <1>1, <1>3 DEF Texts
  <2>2. Replied(AddReply(AddReply(d, Text("-ERR ")), Text("why")), d)
    BY <1>2, <1>3, <2>1 DEF Texts
  <2> QED BY <1>2, <1>3, <1>7, <2>2 DEF Answer, Texts
<1> QED BY <1>4, <1>5, <1>6, <1>7 DEF Ops

=============================================================================
