---------------------------- MODULE SubProtocol -----------------------------
(***************************************************************************)
(* From the bytes of one subscriber's connection to the commands executed  *)
(* for it: process_sub_read_buf, process_inline_buffer and                 *)
(* process_multibulk_buffer (protocol/subcli.c), one loop iteration per    *)
(* step.  TCP keeps the bytes in order and cuts them into reads anywhere.  *)
(*                                                                         *)
(* Bytes are grouped into tokens: a multibulk or bulk length with its      *)
(* marker, one token per character of an argument, and CR, LF, blank and   *)
(* quote.  Of the checks against 16 KiB, those for a header line and for   *)
(* an inline line trim nothing and return as the code would without them;  *)
(* the one inside a command skips the trim at its end (BulkTooBig).        *)
(***************************************************************************)
EXTENDS Integers, SequencesExt

CONSTANTS
  Commands,      \* what subscribers mean to say: the arguments of each command
  Char,          \* the characters of arguments
  MaxRead,       \* SUB_READ_BUF_LEN, MAX_INLINE_READ and MAX_BULK_LEN, in tokens
  MaxSent        \* bound on the commands sent

ASSUME CommandAssumption ==
  \A k \in Commands : k # <<>> /\ k \in Seq(Seq(Char) \ {<<>>})

(* Longer ones have a length that the parser refuses, as it does Star(-1). *)
ASSUME ReadAssumption ==
  /\ MaxRead \in Nat
  /\ \A k \in Commands : /\ Len(k) <= MaxRead
                         /\ \A i \in DOMAIN k : Len(k[i]) <= MaxRead

CR == <<"cr">>
LF == <<"lf">>
Blank == <<"blank">>
Quote == <<"quote">>
Star(n) == <<"star", n>>       \* n = -1: no number, or one that is refused
Dollar(n) == <<"dollar", n>>
Letter(s) == [i \in DOMAIN s |-> <<"char", s[i]>>]

VARIABLES
  stream,     \* commands sent: the tokens of each that are not read yet
  sent,       \* history: the commands sent, <<>> for one that is none
  whole,      \* history: how many of them have been read completely
  buf,        \* c->read_buf
  argv,       \* the arguments c->argv[0..argc-1]; Junk is an unset pointer
  cap,        \* slots c->argv was allocated with
  multi_bulk_len, bulk_len,
  pos,        \* the local pos of process_multibulk_buffer
  pc,         \* "idle", "loop", "bulk", "exec", or "wild" after a memory error
  executed,   \* history: argument lists given to process_command
  cutMulti,   \* history: a read ended inside a multibulk command
  joined,     \* history: a read held parts of two commands
  unset       \* history: argc was not 0 in the memory malloc returned

input  == <<stream, sent, whole>>
parser == <<buf, argv, cap, multi_bulk_len, bulk_len, pos, pc>>
ghosts == <<executed, cutMulti, joined, unset>>
vars == <<input, parser, ghosts>>

Junk == << <<"junk">> >>

(* sub_cli_create sets neither argc nor argv. *)
Init ==
  /\ stream = <<>> /\ sent = <<>> /\ whole = 0
  /\ buf = <<>>
  /\ argv \in {<<>>, <<Junk>>} /\ cap = 0
  /\ multi_bulk_len = 0 /\ bulk_len = -1
  /\ pos = 0 /\ pc = "idle"
  /\ executed = <<>>
  /\ cutMulti = FALSE /\ joined = FALSE
  /\ unset = (argv # <<>>)

-----------------------------------------------------------------------------
(* The subscriber. *)

Bulk(s) == <<Dollar(Len(s)), CR, LF>> \o Letter(s) \o <<CR, LF>>

Multi(k) ==
  <<Star(Len(k)), CR, LF>> \o FlattenSeq([i \in DOMAIN k |-> Bulk(k[i])])

Words(k) ==
  FlattenSeq([i \in DOMAIN k |->
    IF i = 1 THEN Letter(k[i]) ELSE <<Blank>> \o Letter(k[i])])

Inline(k) == {Words(k) \o <<CR, LF>>, Words(k) \o <<LF>>}

Send(k, isMulti, tokens) ==
  /\ Len(sent) < MaxSent
  /\ stream' = Append(stream, [multi |-> isMulti, rest |-> tokens])
  /\ sent' = Append(sent, k)
  /\ UNCHANGED <<whole, parser, ghosts>>

Subscriber ==
  \/ \E k \in Commands : \/ Send(k, TRUE, Multi(k))
                         \/ \E t \in Inline(k) : Send(k, FALSE, t)
  \/ Send(<<>>, TRUE, <<Star(-1), CR, LF>>)
  \/ Send(<<>>, TRUE, <<Star(0), CR, LF>>)
  \/ Send(<<>>, TRUE, <<Star(1), CR, LF, Dollar(-1), CR, LF>>)
  \/ Send(<<>>, FALSE, <<Quote, CR, LF>>)

-----------------------------------------------------------------------------
(* sub_ev_handler: one read of all of the first j commands and p tokens of *)
(* the next, MaxRead at most, appended to read_buf.                        *)
Read(j, p) ==
  LET rest == SubSeq(stream, j + 1, Len(stream))
      part == IF p = 0 THEN <<>> ELSE SubSeq(rest[1].rest, 1, p)
  IN
  /\ pc = "idle"
  /\ j + p > 0
  /\ buf' = buf \o FlattenSeq([i \in 1..j |-> stream[i].rest]) \o part
  /\ Len(buf') - Len(buf) <= MaxRead
  /\ stream' = IF p = 0 THEN rest
               ELSE [rest EXCEPT ![1].rest = SubSeq(@, p + 1, Len(@))]
  /\ whole' = whole + j
  /\ joined' = (joined \/ j > 1 \/ (j = 1 /\ p > 0))
  /\ cutMulti' = (cutMulti \/ (p > 0 /\ rest[1].multi))
  /\ pc' = "loop"
  /\ UNCHANGED <<sent, argv, cap, multi_bulk_len, bulk_len, pos, executed, unset>>

ReadSome ==
  \E j \in 0..Len(stream) :
    \/ Read(j, 0)
    \/ j < Len(stream) /\ \E p \in 1 .. Len(stream[j + 1].rest) - 1 : Read(j, p)

-----------------------------------------------------------------------------
(* Positions in the buffer are counted from 1, pos is the number of tokens *)
(* before the cursor.  sdsrange(read_buf, n, -1) drops the first n.        *)
Drop(n) == SubSeq(buf, n + 1, Len(buf))

(* The first CR (strchr) at or behind the cursor, 0 if there is none, and  *)
(* whether a token follows it.                                             *)
FirstCR(from) ==
  LET at == {i \in from + 1 .. Len(buf) : buf[i] = CR} IN
  IF at = {} THEN 0 ELSE Min(at)

HasLine(from) == FirstCR(from) \in 1 .. Len(buf) - 1

(* string2ll of what is between the marker and the CR: -1 if it fails. *)
Number(marker, from) ==
  IF FirstCR(from) = from + 2 /\ buf[from + 1][1] = marker
    THEN buf[from + 1][2] ELSE -1

(* process_inline_buffer.  The line ends at the first LF, less a CR before *)
(* it; "+2" assumes there was one.                                         *)
LineEnd ==
  LET nl == SelectInSeq(buf, LAMBDA t : t = LF) IN
  IF nl > 1 /\ buf[nl - 1] = CR THEN nl - 1 ELSE nl

Line == SubSeq(buf, 1, LineEnd - 1)

(* sdssplitargs, without its escapes. *)
SplitArgs(line) ==
  LET starts == {i \in DOMAIN line : line[i] # Blank /\ (i = 1 \/ line[i - 1] = Blank)}
      start(n) == CHOOSE i \in starts : Cardinality({j \in starts : j <= i}) = n
      word(i) == SubSeq(line, i,
        Min({j \in i + 1 .. Len(line) + 1 : j = Len(line) + 1 \/ line[j] = Blank}) - 1)
  IN [n \in 1..Cardinality(starts) |-> word(start(n))]

InLoop(isMulti) ==
  pc = "loop" /\ buf # <<>> /\ ((buf[1][1] = "star") <=> isMulti)

InlineWait ==
  /\ InLoop(FALSE)
  /\ LF \notin Range(buf) \/ Quote \in Range(Line)
  /\ pc' = "exec"
  /\ UNCHANGED <<input, buf, argv, cap, multi_bulk_len, bulk_len, pos, ghosts>>

InlineLine ==
  /\ InLoop(FALSE)
  /\ LF \in Range(buf) /\ Quote \notin Range(Line)
  /\ argv' = SplitArgs(Line)
  /\ cap' = Len(argv')
  /\ buf' = Drop(Len(Line) + 2)
  /\ UNCHANGED <<input, multi_bulk_len, bulk_len, pos, pc, ghosts>>

-----------------------------------------------------------------------------
(* process_multibulk_buffer. *)

(* No header line yet, or a bad one: set_protocol_err(c, 0). *)
BadHeader == ~HasLine(0) \/ FirstCR(0) # 2 \/ buf[1][2] = -1

MultiWaitTrims ==                \* mutant: a bad header is dropped
  /\ InLoop(TRUE) /\ multi_bulk_len = 0
  /\ BadHeader
  /\ buf' = IF HasLine(0) THEN Drop(FirstCR(0) + 1) ELSE buf
  /\ pc' = "exec"
  /\ UNCHANGED <<input, argv, cap, multi_bulk_len, bulk_len, pos, ghosts>>

MultiWait ==
  /\ InLoop(TRUE) /\ multi_bulk_len = 0
  /\ BadHeader
  /\ pc' = "exec"
  /\ UNCHANGED <<input, buf, argv, cap, multi_bulk_len, bulk_len, pos, ghosts>>

MultiEmpty ==
  /\ InLoop(TRUE) /\ multi_bulk_len = 0
  /\ HasLine(0) /\ Number("star", 0) = 0
  /\ buf' = Drop(FirstCR(0) + 1)
  /\ UNCHANGED <<input, argv, cap, multi_bulk_len, bulk_len, pos, pc, ghosts>>

(* A new array, its slots unset, also those below argc. *)
MultiHeader ==
  /\ InLoop(TRUE) /\ multi_bulk_len = 0
  /\ HasLine(0) /\ Number("star", 0) > 0
  /\ multi_bulk_len' = Number("star", 0)
  /\ cap' = multi_bulk_len'
  /\ argv' = [i \in DOMAIN argv |-> Junk]
  /\ pos' = FirstCR(0) + 1
  /\ pc' = "bulk"
  /\ UNCHANGED <<input, buf, bulk_len, ghosts>>

MultiResume ==
  /\ InLoop(TRUE) /\ multi_bulk_len # 0
  /\ pos' = 0
  /\ pc' = "bulk"
  /\ UNCHANGED <<input, buf, argv, cap, multi_bulk_len, bulk_len, ghosts>>

InBulk == pc = "bulk" /\ multi_bulk_len > 0

BulkLen ==
  /\ InBulk /\ bulk_len = -1
  /\ HasLine(pos) /\ Number("dollar", pos) >= 0
  /\ bulk_len' = Number("dollar", pos)
  /\ pos' = FirstCR(pos) + 1
  /\ UNCHANGED <<input, buf, argv, cap, multi_bulk_len, pc, ghosts>>

(* set_protocol_err(c, pos). *)
BulkError ==
  /\ InBulk /\ bulk_len = -1
  /\ HasLine(pos) /\ Number("dollar", pos) < 0
  /\ buf' = Drop(pos)
  /\ pc' = "exec"
  /\ UNCHANGED <<input, argv, cap, multi_bulk_len, bulk_len, pos, ghosts>>

EnoughForText == Len(buf) - pos >= bulk_len     \* mutant: forgets "\r\n"
Enough == Len(buf) - pos >= bulk_len + 2

(* c->argv[c->argc++] = ...: beyond the slots it is a heap overflow. *)
BulkArg ==
  /\ InBulk /\ bulk_len # -1 /\ Enough
  /\ argv' = Append(argv, SubSeq(buf, pos + 1, pos + bulk_len))
  /\ pos' = pos + bulk_len + 2
  /\ bulk_len' = -1
  /\ multi_bulk_len' = multi_bulk_len - 1
  /\ pc' = IF Len(argv') > cap THEN "wild" ELSE pc
  /\ UNCHANGED <<input, buf, cap, ghosts>>

(* No end of a bulk length's line, and more bytes than should be: what has *)
(* been parsed stays in the buffer, and the next read parses it again.     *)
TooBig == FirstCR(pos) = 0 /\ Len(buf) > MaxRead

BulkTooBigGoesOn ==              \* mutant: continue for return
  /\ InBulk /\ bulk_len = -1 /\ TooBig
  /\ UNCHANGED vars

BulkTooBig ==
  /\ InBulk /\ bulk_len = -1 /\ TooBig
  /\ pc' = "exec"
  /\ UNCHANGED <<input, buf, argv, cap, multi_bulk_len, bulk_len, pos, ghosts>>

(* The bytes end inside the command: trim, and wait for the next read.     *)
MultiCut ==
  /\ InBulk
  /\ IF bulk_len = -1 THEN ~HasLine(pos) /\ ~TooBig ELSE ~Enough
  /\ buf' = Drop(pos)
  /\ pc' = "exec"
  /\ UNCHANGED <<input, argv, cap, multi_bulk_len, bulk_len, pos, ghosts>>

MultiDone ==
  /\ pc = "bulk" /\ multi_bulk_len = 0
  /\ buf' = Drop(pos)
  /\ pc' = "loop"
  /\ UNCHANGED <<input, argv, cap, multi_bulk_len, bulk_len, pos, ghosts>>

-----------------------------------------------------------------------------
(* The end of process_sub_read_buf: whatever broke the loop, the arguments *)
(* at hand are executed and the client reset.                              *)
LoopOver == pc = "exec" \/ (pc = "loop" /\ buf = <<>>)

NothingToExecute ==
  /\ LoopOver /\ argv = <<>>
  /\ pc' = "idle"
  /\ UNCHANGED <<input, buf, argv, cap, multi_bulk_len, bulk_len, pos, ghosts>>

ExecuteWithoutReset ==           \* mutant: no reset_client
  /\ LoopOver /\ argv # <<>> /\ Junk \notin Range(argv)
  /\ executed' = Append(executed, argv)
  /\ pc' = "idle"
  /\ UNCHANGED <<input, buf, argv, cap, multi_bulk_len, bulk_len, pos,
                 cutMulti, joined, unset>>

Execute ==
  /\ LoopOver /\ argv # <<>> /\ Junk \notin Range(argv)
  /\ executed' = Append(executed, argv)
  /\ argv' = <<>> /\ multi_bulk_len' = 0 /\ bulk_len' = -1
  /\ pc' = "idle"
  /\ UNCHANGED <<input, buf, cap, pos, cutMulti, joined, unset>>

ExecuteJunk ==
  /\ LoopOver /\ Junk \in Range(argv)
  /\ pc' = "wild"
  /\ UNCHANGED <<input, buf, argv, cap, multi_bulk_len, bulk_len, pos, ghosts>>

Parse ==
  \/ InlineWait \/ InlineLine
  \/ MultiWait \/ MultiEmpty \/ MultiHeader \/ MultiResume
  \/ BulkLen \/ BulkError \/ BulkArg \/ BulkTooBig \/ MultiCut \/ MultiDone
  \/ NothingToExecute \/ Execute \/ ExecuteJunk

Next == Subscriber \/ ReadSome \/ Parse

Spec == Init /\ [][Next]_vars

(* A handler that was called runs on. *)
FairSpec == Spec /\ WF_vars(Parse)

-----------------------------------------------------------------------------
Token == {CR, LF, Blank, Quote} \cup ({"star", "dollar"} \X (Int)) \cup ({"char"} \X Char)

TypeOK ==
  /\ buf \in Seq(Token)
  /\ \A i \in DOMAIN argv : argv[i] = Junk \/ argv[i] \in Seq(Token)
  /\ cap \in Nat /\ multi_bulk_len \in Nat /\ bulk_len \in Nat \cup {-1}
  /\ pos \in Nat /\ (pc = "bulk" => pos <= Len(buf))
  /\ pc \in {"idle", "loop", "bulk", "exec", "wild"}
  /\ whole + Len(stream) = Len(sent)

(* A command as process_command sees it, and those read whole by now. *)
Arguments(k) == [i \in DOMAIN k |-> Letter(k[i])]

Complete == [i \in 1..whole |-> Arguments(sent[i])]

WellFormed == <<>> \notin Range(sent)

(***************************************************************************)
(* A subscriber that waits for each reply before it sends on, and whose    *)
(* multibulk commands arrive in one piece, has exactly its commands        *)
(* executed; inline commands may be cut anywhere.  No memory error         *)
(* happens.  The struct's argc has to start out as 0, which                *)
(* sub_cli_create leaves to malloc.                                        *)
(***************************************************************************)
Orderly == ~joined /\ ~cutMulti /\ ~unset /\ WellFormed

ExecutesCommands ==
  Orderly => /\ pc # "wild"
             /\ pc = "idle" => executed = Complete

(***************************************************************************)
(* The handler returns from every read: each round of the loops consumes   *)
(* something or leaves them, whatever the bytes are, also where it leaves  *)
(* what it has parsed in the buffer (BulkTooBig).                          *)
(***************************************************************************)
HandlerReturns == pc = "loop" ~> pc \in {"idle", "wild"}

(***************************************************************************)
(* An invalid multibulk length is never trimmed and never answered: once   *)
(* it is at the head of the buffer, nothing the subscriber sends is        *)
(* executed any more.                                                      *)
(***************************************************************************)
BadHead ==
  /\ Len(buf) > 2 /\ buf[1] = Star(-1) /\ buf[2] = CR
  /\ multi_bulk_len = 0 /\ argv = <<>>

Wedged == [][BadHead => BadHead' /\ executed' = executed]_vars

(***************************************************************************)
(* process_multibulk_buffer returns SUBCLI_ERR with the comment "Still not *)
(* read to process the command" when the bytes end inside a command.  So   *)
(* only whole commands should be executed, however TCP cuts them.          *)
(***************************************************************************)
ExecutesWholeCommands ==
  ~joined /\ WellFormed =>
    \A i \in DOMAIN executed : executed[i] \in {Arguments(k) : k \in Range(sent)}

=============================================================================
