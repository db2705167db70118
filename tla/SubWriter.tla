------------------------------ MODULE SubWriter -----------------------------
(***************************************************************************)
(* One subscriber connection from the handlers that queue replies to the   *)
(* peer that reads them: the reply buffer, the EV_WRITE interest of the    *)
(* client's event, send_reply_to_subcli and the kernel's socket buffer.    *)
(***************************************************************************)
EXTENDS ReplyOps

CONSTANT SockLen     \* room in the socket's send buffer, in units

(***************************************************************************)
(* A socket's send buffer is at least as large as the 16 KiB reply buffer. *)
(***************************************************************************)
ASSUME SockAssumption == SockLen \in Nat /\ SockLen >= WbufLen

VARIABLES
  c,         \* the sub_client's wbuf and the EV_WRITE flag of its event
  asked,     \* the peer has sent a command that has not been read yet
  sock,      \* units in the socket's send buffer, not yet read by the peer
  alive      \* the client has not been released

vars == <<c, asked, sock, alive>>

Init ==
  /\ c = NoReply
  /\ asked = FALSE
  /\ sock = 0
  /\ alive = TRUE

-----------------------------------------------------------------------------
(* A publish that matches a topic of this client (add_reply_bulk). *)
QueueBulk(m) ==
  /\ alive
  /\ c' = AddReplyBulk(c, m)
  /\ UNCHANGED <<asked, sock, alive>>

(* The peer sends a command; the handler on EV_READ answers it. *)
PeerSend ==
  /\ ~asked /\ asked' = TRUE
  /\ UNCHANGED <<c, sock, alive>>

ReadCommand ==
  /\ alive /\ asked
  /\ \E op \in Ops : c' = Answer(op, c)
  /\ asked' = FALSE
  /\ UNCHANGED <<sock, alive>>

(***************************************************************************)
(* sub_ev_handler looks at EV_WRITE only when EV_READ is not set ("else    *)
(* if"), then send_reply_to_subcli writes from the start of wbuf until the *)
(* kernel has taken everything or answers EAGAIN.  Only a complete send    *)
(* resets wbufpos and drops EV_WRITE; the position reached (sentlen) is a  *)
(* local variable and is lost on EAGAIN.                                   *)
(***************************************************************************)
Room == SockLen - sock

WriteReady == alive /\ c.write /\ ~asked

(* Mutant: wbufpos is not reset after a complete send. *)
SendAllKeepsBytes ==
  /\ WriteReady
  /\ Len(c.wbuf) <= Room
  /\ sock' = sock + Len(c.wbuf)
  /\ c' = [c EXCEPT !.write = FALSE]
  /\ UNCHANGED <<asked, alive>>

SendAllUncounted ==         \* mutant: takes a short write for a full one
  /\ WriteReady
  /\ sock' = sock + Len(c.wbuf)
  /\ c' = NoReply
  /\ UNCHANGED <<asked, alive>>

SendAll ==
  /\ WriteReady
  /\ Len(c.wbuf) <= Room
  /\ sock' = sock + Len(c.wbuf)
  /\ c' = NoReply
  /\ UNCHANGED <<asked, alive>>

(* Mutants: after EAGAIN the event is updated as after a complete send;   *)
(* or the whole buffer counts as sent.                                     *)
SendPartDropsInterest ==
  /\ WriteReady
  /\ Room \in 1 .. Len(c.wbuf) - 1
  /\ sock' = SockLen
  /\ c' = [c EXCEPT !.write = FALSE]
  /\ UNCHANGED <<asked, alive>>

SendPartDropsRest ==
  /\ WriteReady
  /\ Room \in 1 .. Len(c.wbuf) - 1
  /\ sock' = SockLen
  /\ c' = NoReply
  /\ UNCHANGED <<asked, alive>>

SendPart ==
  /\ WriteReady
  /\ Room \in 1 .. Len(c.wbuf) - 1
  /\ sock' = SockLen
  /\ UNCHANGED <<c, asked, alive>>

(* Any other errno: sub_cli_release. *)
SendError ==
  /\ WriteReady
  /\ alive' = FALSE
  /\ UNCHANGED <<c, asked, sock>>

(* The peer reads some of what has arrived, or all of it. *)
PeerRead ==
  /\ sock' \in 0 .. sock - 1
  /\ UNCHANGED <<c, asked, alive>>

PeerReadAll ==
  /\ sock > 0 /\ sock' = 0
  /\ UNCHANGED <<c, asked, alive>>

Next ==
  \/ \E m \in Msgs : QueueBulk(m)
  \/ PeerSend
  \/ ReadCommand
  \/ SendAll
  \/ SendPart
  \/ SendError
  \/ PeerRead

Spec == Init /\ [][Next]_vars

(***************************************************************************)
(* The event is level-triggered, so a writable socket with EV_WRITE        *)
(* registered gets its handler called, and so does a readable one; the     *)
(* peer reads what it is sent.  A peer may go on sending forever: nothing  *)
(* in the code makes its turn to write come.                               *)
(***************************************************************************)
Fairness ==
  /\ WF_vars(ReadCommand)
  /\ WF_vars(SendAll \/ SendPart)
  /\ WF_vars(PeerReadAll)

FairSpec == Spec /\ Fairness

-----------------------------------------------------------------------------
TypeOK ==
  /\ c \in Replies
  /\ asked \in BOOLEAN
  /\ sock \in 0..SockLen
  /\ alive \in BOOLEAN

(***************************************************************************)
(* wbufpos never passes the end of wbuf (the bound in add_reply_to_buf).   *)
(***************************************************************************)
WbufInBounds == Len(c.wbuf) <= WbufLen

(***************************************************************************)
(* EV_WRITE is registered exactly while bytes are waiting.  One direction  *)
(* is that no queued reply is forgotten.  The other is that                *)
(* send_reply_to_subcli never runs on an empty buffer: its loop would not  *)
(* be entered and nwritelen would be read uninitialised.  It rests on the  *)
(* first piece of every reply fitting into an empty buffer although        *)
(* prepare_to_write runs before the room is checked.                       *)
(***************************************************************************)
WriteInterest == c.write <=> c.wbuf # <<>>

(***************************************************************************)
(* Every queued reply is eventually sent in full or the client is          *)
(* released, although each EAGAIN makes the send start over: once the peer *)
(* has drained the socket the whole buffer fits in one go.  The peer must  *)
(* at some point stop sending commands, because reads go before writes.    *)
(***************************************************************************)
EventuallyFlushed ==
  <>[]~asked => (c.wbuf # <<>> ~> (c.wbuf = <<>> \/ ~alive))

=============================================================================
