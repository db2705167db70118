-------------------------- MODULE SubWriterHistory --------------------------
(***************************************************************************)
(* SubWriter with a record of the bytes: those the reply buffer accepted   *)
(* and those the socket took, to compare the two streams.  The record is   *)
(* of the first bytes of a connection only: once it would pass its bounds  *)
(* it is dropped, and the connection goes on unrecorded.                   *)
(***************************************************************************)
EXTENDS SubWriter

CONSTANTS
  MaxAccepted,   \* bound on the units accepted while recording
  MaxOut         \* bound on the units sent while recording

VARIABLE
  log            \* the record, or NoLog

(* accepted: every unit add_reply_to_buf has copied into wbuf.             *)
(* out: every unit write() has taken.                                      *)
(* whole: the places in out of the units that a complete send wrote.       *)
(* cut: some send stopped at EAGAIN with units left.                       *)
(* refused: some reply found less room in wbuf than it needs.              *)
Log    == [accepted : Seq(Unit), out : Seq(Unit), whole : Seq(Nat),
           cut : BOOLEAN, refused : BOOLEAN]
NoLog  == [accepted |-> <<>>]
Recording == log # NoLog

hvars == <<vars, log>>

HInit ==
  /\ Init
  /\ log = [accepted |-> <<>>, out |-> <<>>, whole |-> <<>>,
            cut |-> FALSE, refused |-> FALSE]

Record(l) ==
  log' = IF Recording /\ Len(l.accepted) <= MaxAccepted /\ Len(l.out) <= MaxOut
           THEN l ELSE NoLog

(* The replies, whole, and whether wbuf has the room for one. *)
BulkFrame(m)    == BulkLen(m) \o Payload(m) \o BulkEnd(m)
AnswerFrame(op) ==
  CASE op = "ping"        -> Text("+PONG")
    [] op = "subscribe"   -> Text("+subscribe") \o Text("crlf")
    [] op = "unsubscribe" -> Text("+unsubscribe") \o Text("crlf")
    [] op = "unknown"     -> Text("-ERR ") \o Text("why") \o Text("crlf")
HasRoom(frame)  == Len(frame) <= WbufLen - Len(c.wbuf)

(* What a handler appended to the reply buffer. *)
Added == SubSeq(c'.wbuf, Len(c.wbuf) + 1, Len(c'.wbuf))

HQueue(m) ==
  /\ QueueBulk(m)
  /\ Record([log EXCEPT !.accepted = @ \o Added,
                        !.refused = @ \/ ~HasRoom(BulkFrame(m))])

HReadCommand ==
  /\ ReadCommand
  /\ Record([log EXCEPT !.accepted = @ \o Added,
                        !.refused = @ \/ ~\E op \in Ops :
                            c' = Answer(op, c) /\ HasRoom(AnswerFrame(op))])

HSendAll ==
  /\ SendAll
  /\ Record([log EXCEPT !.out = @ \o c.wbuf,
                        !.whole = @ \o [i \in DOMAIN c.wbuf |-> Len(log.out) + i]])

HSendPart ==
  /\ SendPart
  /\ Record([log EXCEPT !.out = @ \o SubSeq(c.wbuf, 1, Room), !.cut = TRUE])

HOther ==
  /\ PeerSend \/ SendError \/ PeerRead
  /\ UNCHANGED log

HNext ==
  \/ \E m \in Msgs : HQueue(m)
  \/ HReadCommand
  \/ HSendAll
  \/ HSendPart
  \/ HOther

HSpec     == HInit /\ [][HNext]_hvars
HFairSpec == HSpec /\ Fairness

-----------------------------------------------------------------------------
(***************************************************************************)
(* As long as every send has been taken whole, the peer's stream is what   *)
(* the buffer accepted, in order and once, the rest still waiting.         *)
(***************************************************************************)
ExactUntilCut == Recording /\ ~log.cut => log.out \o c.wbuf = log.accepted

(***************************************************************************)
(* Sends that stop at EAGAIN repeat units but lose none and keep the       *)
(* order: what complete sends wrote, from the first to the last, and what  *)
(* is still waiting is what was accepted.                                  *)
(***************************************************************************)
Kept == [i \in DOMAIN log.whole |-> log.out[log.whole[i]]]

NothingLost ==
  Recording =>
    /\ \A i, j \in DOMAIN log.whole : i < j => log.whole[i] < log.whole[j]
    /\ Kept \o c.wbuf = log.accepted

Frames == {BulkFrame(m) : m \in Msgs} \cup {AnswerFrame(op) : op \in Ops}

(* The frame fr is found in s behind the first n units, as far as s goes.  *)
FoundAt(fr, s, n) == \A i \in DOMAIN fr : n + i <= Len(s) => s[n + i] = fr[i]

(* s is whole replies and the beginning of one: they start behind the      *)
(* units counted by starts.                                                *)
FramePrefix(s) ==
  \E starts \in SUBSET (0..Len(s)) :
    /\ 0 \in starts
    /\ \A n \in starts : \E fr \in Frames :
         /\ FoundAt(fr, s, n)
         /\ n + Len(fr) <= Len(s) => n + Len(fr) \in starts

(***************************************************************************)
(* The pieces of a reply are accepted or refused one by one, each by the   *)
(* room left at its turn.  As long as every reply had room as a whole, the *)
(* buffer was given whole replies, and with no send cut the peer reads     *)
(* RESP; the first reply that has not leaves a torn frame in the buffer.   *)
(***************************************************************************)
WholeWhileRoom ==
  Recording =>
    /\ ~log.refused => FramePrefix(log.accepted)
    /\ ~log.refused /\ ~log.cut => FramePrefix(log.out)

(***************************************************************************)
(* README.md: the protocol with a subscriber is a subset of RESP.  A       *)
(* sender that was given RESP should keep the stream RESP: what has been   *)
(* sent is whole replies and the beginning of one.                         *)
(***************************************************************************)
SendsResp == Recording /\ FramePrefix(log.accepted) => FramePrefix(log.out)

=============================================================================
