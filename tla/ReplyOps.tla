------------------------------ MODULE ReplyOps ------------------------------
(***************************************************************************)
(* The reply side of protocol/subcli.c as operators on the part c of a     *)
(* sub_client that matters to it:                                          *)
(*   c.wbuf   the first wbufpos bytes of the char array wbuf               *)
(*   c.write  whether the event object c->ev carries EV_WRITE              *)
(*                                                                         *)
(* Bytes are grouped into units.  A bulk reply has one unit of header      *)
(* ("$<len>\r\n"), Size[m] units of payload and one unit of "\r\n"; the    *)
(* pieces of the short replies are one unit each.  What the code compares  *)
(* is the number of units in a piece with the room left in the buffer.     *)
(***************************************************************************)
EXTENDS Integers, Sequences

CONSTANTS
  Msgs,      \* published messages
  Size,      \* Size[m]: payload units of message m
  WbufLen    \* SUB_WRITE_BUF_LEN, in units

(***************************************************************************)
(* A message is what one read of at most PUB_READ_BUF_LEN bytes returned,  *)
(* and PUB_READ_BUF_LEN = SUB_WRITE_BUF_LEN (constant.h), so a payload may *)
(* be as large as the whole reply buffer.                                  *)
(***************************************************************************)
ASSUME WbufAssumption == WbufLen \in Nat \ {0}
ASSUME SizeAssumption == Size \in [Msgs -> 1..WbufLen]

Texts == {"+PONG", "+subscribe", "+unsubscribe", "-ERR ", "why", "crlf"}

Unit == ({"len", "data", "end"} \X Msgs) \cup ({"text"} \X Texts)

Replies == [wbuf : Seq(Unit), write : BOOLEAN]
NoReply == [wbuf |-> <<>>, write |-> FALSE]

BulkLen(m)  == << <<"len", m>> >>
Payload(m)  == [i \in 1..Size[m] |-> <<"data", m>>]
BulkEnd(m)  == << <<"end", m>> >>
Text(t)     == << <<"text", t>> >>

(***************************************************************************)
(* prepare_to_write: re-register the client's event with EV_WRITE unless   *)
(* it already has it.  The registration itself belongs to the caller's     *)
(* model of the event loop.                                                *)
(***************************************************************************)
NoPrepareToWrite(c) == c        \* mutant: EV_WRITE is never asked for

PrepareToWrite(c) == [c EXCEPT !.write = TRUE]

(* add_reply_to_buf: all of s or nothing. *)
AddUnchecked(c, s) == [c EXCEPT !.wbuf = @ \o s]   \* mutant: no bound

AddIfSpare(c, s) ==              \* mutant: refuses what fits exactly
  IF Len(s) >= WbufLen - Len(c.wbuf)
    THEN c
    ELSE [c EXCEPT !.wbuf = @ \o s]

AddReplyToBuf(c, s) ==
  IF Len(s) > WbufLen - Len(c.wbuf)
    THEN c
    ELSE [c EXCEPT !.wbuf = @ \o s]

(* add_reply and add_reply_string: a refused piece is logged at most. *)
AddReply(c, s) == AddReplyToBuf(PrepareToWrite(c), s)

(* add_reply_bulk: three pieces, each accepted or refused on its own. *)
AddReplyBulk(c, m) ==
  AddReply(AddReply(AddReply(c, BulkLen(m)), Payload(m)), BulkEnd(m))

(* What the commands reply; add_reply_error_length for "unknown", an       *)
(* unknown command or a wrong number of arguments.                         *)
Ops == {"ping", "subscribe", "unsubscribe", "unknown"}

Answer(op, c) ==
  CASE op = "ping"        -> AddReply(c, Text("+PONG"))
    [] op = "subscribe"   -> AddReply(AddReply(c, Text("+subscribe")), Text("crlf"))
    [] op = "unsubscribe" -> AddReply(AddReply(c, Text("+unsubscribe")), Text("crlf"))
    [] op = "unknown"     ->
         AddReply(AddReply(AddReply(c, Text("-ERR ")), Text("why")), Text("crlf"))

=============================================================================
