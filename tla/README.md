# mini-pubsub-broker: models, checks and proofs

A TLA+ development for the broker in `src/`: what its parts do, checked with TLC
on small instances and, for the invariants the rest depends on, proved with
TLAPS for every value of the constants. Paths below are relative to
`src/src/` (so `event.c` is `src/src/event.c`); `src/README.md` is the
program's own documentation.

## 1. The system

One process, one thread, one libevent loop. Publishers connect to one port and
send text; subscribers connect to another and speak a subset of RESP. A topic
is a prefix: a message goes to whoever subscribed a topic it starts with.

| Component | State | Operations | Hard part |
|---|---|---|---|
| Event handlers (`event.c`) | descriptors, one registered event per client | `accept_pub_handler`, `accept_sub_handler`, `pub_ev_handler`, `sub_ev_handler` | the order of events; `EV_READ` before `EV_WRITE`; descriptors that are never closed |
| Client life cycle (`protocol/subcli.c`, `pubcli.c`) | `sub_client`, `pub_client` structs on the heap | `sub_cli_create/release`, `pub_cli_create/release` | a released `sub_client` stays in every table; `malloc` hands its address out again |
| Topic registry (`broker.h`, `subscribe_channel`) | `sub_trie`, `subscibe_table`, `subcli_table`, `sub_inc_counter` | `subscribe`, `unsubscribe`, insertion on accept | two structures updated by two calls under names that may differ; several arguments, some of which fail |
| Publishing (`process_pub_read_buf`, `single_chan_publish`, `trie_walker`) | the message, the walk, a copy of the message that is cut and restored | one read = one publish | off-by-one positions, text that iconv does not convert, pointers to clients that left |
| Reply buffer (`add_reply*`, `send_reply_to_subcli`) | `wbuf`, `wbufpos`, `EV_WRITE` | queue a reply, send | a full buffer, a `write` that takes a part, EAGAIN |
| Subscriber protocol (`process_sub_read_buf` and the two parsers) | `read_buf`, `argc`, `argv`, `multi_bulk_len`, `bulk_len` | parse and execute | TCP cuts commands anywhere; state kept from one read to the next |
| Hash table (`common/ght_hash_table.c`, used through `common/hset.c`) | chains, list by age, counters, flags, iterators | insert, get, replace, remove, rehash, first, next, the flags' setters, finalize | two linked lists relinked by every operation; an iterator over a table that changes |
| Client ids, random start (`util.c`) | `server.sub_inc_counter`, `subcli_table` | `create_objectid`, insertion on accept | the end of the counter; a table that refuses a key it has |
| Startup, configuration, sockets (`broker.c`, `config.c`, `net.c`) | settings, pid file, listening sockets | `main`, `srv_load_cfg`, `server_init`, `net_tcp_server` | processes that share addresses and files; bind and listen are two calls; kills in between |
| Strings and their memory (`common/sds.c`, `common/zmalloc.c`) | length, free space and block of each string; `used_memory` | create, grow, append, copy, cut, trim, free | `unsigned int`, `int` and `size_t` mixed; callers that write behind the string |
| Linked list (`common/list.c`) | | | not linked into the program |
| Logging, hash functions, cJSON, number parsing | | | vendored, output only or pure arithmetic |

How they interact: the loop calls a handler with the `sub_client` or
`pub_client` its event was created with. `accept_sub_handler` puts the client in
`subcli_table`. `sub_ev_handler` reads and parses; `subscribe` stores a topic in
`sub_trie` and makes a set for it in `subscibe_table`. `pub_ev_handler` walks
`sub_trie` along the message, looks each topic found up in `subscibe_table` and
replies to every client of its set through the pointer stored there. A reply
goes to the client's `wbuf`, and the client's event is registered anew with
`EV_WRITE`; the loop then calls `send_reply_to_subcli`. Everything is shared
through `server`, and nothing removes a client from the tables.

What makes each part correct:

- reply buffer: never overflows; what is queued is sent once, in order, whole;
  the writer is asked for exactly while something waits;
- handlers: a client's event is its own; a command sent is read; a departed
  peer is noticed; one client cannot harm another;
- registry: trie and table agree; a topic leads to the clients that subscribed it;
- publishing: every topic that is a prefix is looked up, no other;
- protocol: commands are executed as sent, however they were cut; the handler
  returns;
- hash table: a map in insertion order, both lists intact, complete iterations,
  nothing leaked;
- processes: a broker that serves has its two addresses to itself; of several
  with the same addresses one is left; the pid file names the one that serves;
- ids: no two subscribers share one up to 2^24; the table leads from an id to
  the first that was given it;
- strings: no write behind a block, whatever the lengths; `sdsrange` keeps the
  right bytes; the memory count is exact.

`PROJECT.json` lists the hazards behind these, each at its line.

## 2. Modules

| Module | Models | Extends |
|---|---|---|
| `ReplyOps` | `add_reply*`, `prepare_to_write` as operators on `[wbuf, write]` | |
| `SubWriter` | one connection: reply buffer, `EV_WRITE`, kernel send buffer, peer | `ReplyOps` |
| `SubWriterHistory` | the same with the bytes accepted and sent | `SubWriter` |
| `Broker` | handlers, client memory, registry, publishing, together | `ReplyOps` |
| `TopicOwner` | abstract: who owns a topic; `Broker` implements it | |
| `TrieWalk` | one publish, character by character | |
| `SubProtocol` | the parsers, one loop round per step, over a cut stream | |
| `GhtHashTable` | the hash table, its links, flags and iterators | |
| `OrderedMap` | abstract: a map in insertion order; `GhtHashTable` implements it | |
| `ServerProcess` | `main` to the loop in several processes on one host; ids | |
| `Sds` | strings and the allocator's count under them | |
| `ReplyOpsProofs`, `BrokerProofs`, `TrieWalkProofs`, `SubProtocolProofs`, `ServerProcessProofs`, `SdsProofs`, `GhtHashTableProofs` | proofs | the module they name, `TLAPS` |
| `SubWriterProofs` | proofs about the reply path and its record | `SubWriterHistory`, `ReplyOpsProofs` |
| `MC*` | finite instances for TLC | |

### How state and actions correspond to the code

**ReplyOps.** `wbuf` is what is in `c->wbuf` up to `wbufpos`, in units rather
than bytes: a bulk reply is a length, a payload of `Size[m]` units and a final
CRLF, each copied or refused as a whole by its own `add_reply_to_buf`. The room
`WbufLen` stands for the 16 KiB of `SUB_WRITE_BUF_LEN`; a payload may be as
large, since a publisher's read is bounded by the same number. `write` is whether the client's event
asks for `EV_WRITE`.

**SubWriter.** The write handler loops over `write` until all is sent or EAGAIN;
the loop is one action for each outcome (`SendAll`, `SendPart`, `SendError`)
because no other handler runs in between. After EAGAIN with nothing taken
nothing has changed. `sentlen` is a local variable, so after `SendPart` the
buffer is as before and the next send starts over. `SubWriterHistory` records
the units `add_reply_to_buf` accepted and `write` took, and the places among the
latter that a complete send wrote (`whole`), from the start of the connection up
to its bounds; then `log` becomes `NoLog` and the connection goes on without a
record, so the bounds cut off no behaviour.

**Broker.** `watch[f]` is the event on descriptor `f` and the struct it passes
to its handler; `cli[a]` the bytes at address `a`; `live` the addresses
allocated. Each handler is one action, except that a publish is stepped through
(`ReadMessage`, `NextTopic`, `PublishTo`, `PublishDone`) to let the order in
which a set is iterated vary; `Idle` keeps other handlers out meanwhile. No
descriptor is closed by either release, so none is given out twice and
`conn[f]` never returns to `"none"`. A released struct keeps its bytes until
`AcceptSub` reuses the address. Where the code follows a pointer to freed
memory the outcome is a choice: the stale bytes are used as if the struct were
alive, the process dies, or libevent refuses the event it finds and nothing
changes (`Crash`, `Dangling`). An event that came back to life this way passes
its handler a struct that is free or holds a later client: the handler reads
from its own descriptor and queues, writes and releases for the struct. So
`acked` counts a subscription for the struct's descriptor, and such an event may
call `send_reply_to_subcli` on an empty buffer, where `nwritelen` is
uninitialised (`SendNothing`). `touched` records that a publish followed a
pointer to freed memory.
`KeyOf` is what iconv leaves of a topic (up to a NUL or an invalid byte);
`Storable` are the topics libdatrie's alphabet [a-zA-Z] admits. When several
arguments of one `subscribe` have the same key, the first wins;
`SubscribeChannels` allows any of them, since their order is not part of the
model. `Walked` is where a publish looks a topic up: where the trie holds it,
and also behind a key whose text the message goes on from with a byte iconv
refuses, since the walk passes the key's terminator and stops again.

**TrieWalk.** `Step` is a round of `trie_walker`'s loop, `Lookup` what
`process_pub_read_buf` does with a position returned, `Finish` its end. What
`conv_to_alpha` did not write is any value (`IsAlphaOf`). libdatrie is external:
a state is the string walked, a key is stored with its terminating 0.

**SubProtocol.** A token is a length with its marker, a character of an
argument, CR, LF, blank, or a quote. `Read` takes any number of tokens from the
connection, across command boundaries; every loop round and every exit of the
three functions is an action of its own. There are three checks against 16 KiB.
Each calls `set_protocol_err(c, 0)`, which trims nothing and reports nothing,
and returns. Those for a multibulk header (`subcli.c:125`) and for an inline
line (`subcli.c:223`) return as the code would without them and are left out.
The one inside a command (`subcli.c:159`) returns before the trim at
`subcli.c:204`: `BulkTooBig` keeps the arguments just taken in the buffer, to be
executed now and parsed again with the next read. `MaxRead` is the size of a
read and the limit. The escapes of `sdssplitargs` are left out (an unbalanced
quote is kept, as the one input it refuses). `argc` is the length
of `argv`, and both start as malloc left them: empty or with an unset pointer.
`pc = "wild"` stands for the two memory errors, writing past `argv`'s
array and using a pointer that was never set.

**GhtHashTable.** The table is a record with the fields of the C struct, the
links of its entries as functions of their keys. A key stands for its entry's
address, since no two entries have one key. Each exported operation is an
action; lookups relink the chain under the heuristics in force. `ght_rehash`
inserts every entry into a new table in order of age, without limit, and frees
the old entries. `Freed` turns a caller's pointers to them into `FREED`, and
nobody tells the caller: `GhtNextFreed` is `ght_next` reading the freed entry,
which goes on to wherever its old bytes lead or takes them for the end. Removal
during a walk is restricted as the header requires (`ght_hash_table.h:402`).
The setters are called at any time. `owed` records the entries a walk still has
to return. `GhtFinalize` frees the
chains and is followed by the next `ght_create`; an entry it missed would keep
its data in the new table, which is what `NoLeaks` looks at. `hset.c` only
forwards to the table; its one addition is that data is never NULL, without
which an iteration would stop early.

**ServerProcess.** Each process goes through the steps of `main`, `server_init`
and `net_tcp_server` (`pc`), one system call that others can see per action:
`fopen` and `fclose` of the pid file, `bind`, `listen`. What the processes share
is what the system keeps: the pid files by path, and who listens where.
`Overlap` and `Rivals` are the kernel's rules under SO_REUSEADDR: a socket that
is bound and does not listen yet keeps nobody from binding, one that listens
keeps others from both, and connections in TIME_WAIT, which are left out for
that, keep nobody from either. `PortOf` is what
`snprintf` into six bytes and `getaddrinfo` make of a setting. A configuration
file is a record of cJSON items: a number has no string, a string the number 0,
so `Unusable` has the crash of `strdup(NULL)` as well as the text that does not
parse. `Kill` may come at any step; an exit, a crash and a kill are the same to
the system (`End`). Once in the loop a process only accepts subscribers, each
with its own second of the clock, which may jump; `ObjectId` keeps the parts of
an id that differ within a process, the second and the last six digits.
`contended` records processes that used a pid file at the same time: with one
file for two brokers the last to write is named, as the code intends.
`unwritten` records those whose pid a full disk did not take: `fprintf` and
`fclose` are not checked, and the file stays empty.

**Sds.** A string is its bytes, `free`, the size of the block it really has, and
whether a NUL ends it; `len` is the number of bytes, which `Put` cuts to the
width of the field. `bad` is set by a write behind the block or a failed
`assert`. `UInt`, `SizeT` and `Int_` are the conversions the C code does
silently; `IntMax` gives their widths. The functions are operators on a string; an action is a call and what
it does to `used_memory`: `Become` reallocates when the block changes.
`ReadInto` is how the read handlers use the library: room first, then bytes
written by `read`, then `sdsIncrLen`; in `ReadNothing` the read fails and the
room stays.

## 3. Runs

| Run | Question | Bounds and why they are enough |
|---|---|---|
| `subwriter` | Is the buffer in bounds, `EV_WRITE` exact, what arrives what was queued, every reply flushed? | 5 units of buffer, 6 of socket, a message of 1 unit and one that never fits: full, torn, cut, and complete sends all occur; 7 units accepted and 9 sent are recorded, enough for a torn reply and two cut sends; 490,858 states |
| `broker` | Registry, events, memory and ownership under every order of handlers | 4 descriptors, 2 addresses, one command with 4 topics (two with one key, one refused by the trie), 2 messages with two topics each, room for 1 unit of a reply: a subscriber leaves, its address is reused, a publisher's message follows the old pointer, and the event that comes back reaches a third client; 1,070,955 states |
| `broker_live` | Is every command handled and every departure noticed? | 2 descriptors, no symmetry, a ping and a subscribe: one client sends, the other publishes or leaves |
| `trie_walk` | Does a publish look up exactly the prefixes, and end? | every trie over 5 keys (one empty, one a prefix of the others), every message of up to 4 characters with letters, others and stops |
| `sub_protocol` | Are commands executed as sent, does the handler return, what does a bad header do? | two commands of any kind, read in any pieces, joined or cut; a read takes 15 tokens at most, the shorter command is as long and the other longer, so that a bulk length may be cut with more than 15 in the buffer; 209,211 states |
| `hash_table` | Are the lists intact, walks complete, the order kept, nothing leaked? | 4 keys, three of them in one bucket of every table; sizes 1 and 2, asked for or reached by the automatic rehash at the fourth insertion; limits none and 2 and all heuristics, set at any time; 110,568 states |
| `sds` | Do lengths and capacities agree, also when they wrap? | two strings, `int` of 3 bits (`IntMax` 3) and `size_t` of 6, texts of 1 and 3 bytes (which mix with the NULs of `sdsgrowzero`), preallocation 2 where the code has 1 MiB, 20 bytes of memory: lengths pass both 3 and 7, capacities wrap, every pair of ints is tried as a range in every state |
| `server_process` | Who gets the addresses and the pid file, and which ids are given? | three processes, which are a winner, a loser and a latecomer; files with the ports exchanged, with five-digit ports, with another pid file, and one for each way to fail; a counter of 2 values, 2 seconds and 2 subscribers, so that an id is given twice |

`hash_table` and `sds` check for deadlock. The others do not, because the
system may stop: peers may send nothing more, a publish or a parse comes to its
end, and every process may be dead. Symmetry is used in `broker` (descriptors
and addresses), `hash_table` (keys with one hash), `sds` (the strings' names)
and `server_process` (processes), none of which anything distinguishes, in runs
whose temporal properties are of the form "initial state and every step" only.

What the passing runs show, beyond the type invariants:

- `WbufInBounds`, `WriteInterest`: the buffer does not overflow and a live
  client's own event never runs the write handler on an empty buffer, where
  `nwritelen` would be read uninitialised.
- `EventuallyFlushed`: a reply is sent although each EAGAIN starts over, if the
  peer drains its socket and stops asking; the second condition is needed,
  because reading goes first.
- `ExactUntilCut`, `NothingLost`: the stream is exact until the first cut send;
  afterwards bytes repeat, but none is lost or out of order: what complete sends
  wrote, and what waits, is what was accepted.
- `WholeWhileRoom`: while every reply had room as a whole the buffer was given
  whole replies, and with no send cut the peer reads RESP. A reply's pieces are
  accepted one by one, so the first reply without room is queued in part.
- `RegistryAgrees`, `RegistryHonest`: trie and table stay in step; an entry that
  still leads to its own client leads to one that asked for the topic.
- `WatchedForReplies`: a live client's event is its own, with `EV_WRITE` exactly
  while replies wait, also when stale events come back to life.
- `SafeUntilDeparture`: up to the first publish to the topic of a client that
  has left, nothing goes wrong for anyone.
- `OwnedByFirst`: `Broker` implements `TopicOwner`: a topic is its first
  subscriber's for the life of the process.
- `RequestHandled`, `DepartureNoticed`: liveness under the same condition.
- `LooksUpPrefixes`, `FindsEveryTopic`, `PublishEnds`: the cutting and restoring
  of the prefix is right for every message, and the walk ends.
- `ExecutesCommands`: a subscriber that waits for its replies is served, inline
  commands cut anywhere. `Wedged`: after an invalid multibulk length it never is
  again. `HandlerReturns`: no input hangs the broker.
- `Linked`, `NoLeaks`, `KeepsOrder`: the table is a map in insertion order and
  every entry taken out is freed once.
- `WalkComplete`, `RemovalIsSafe`: a walk is complete for as long as the entry
  its iterator leads to is not freed, and no removal the header allows frees it.
  An insertion that rehashes or evicts may, and so does `ght_rehash`; nothing is
  claimed of a walk after that.
- `LoopServes`, `OneSurvives`: a serving broker has its addresses to itself
  although two may bind them at once; of brokers with the same two addresses one
  is left. Brokers with each other's ports exchanged may all exit.
- `PidFileNames`: a serving broker's pid file names it, whatever was in it and
  wherever an earlier broker died. A second broker with the same file that is
  refused its port leaves its own pid there; such pairs are excluded by name
  (`contended`), and so are brokers whose pid the disk did not take.
- `IdsDistinct`, `TableKeepsFirst`: an id is given twice only beyond the counter
  and within one second, and then `subcli_table` keeps the first holder.
- `Fits`: no sequence of calls writes behind a block, although the capacity a
  header can hold may be less than the block has. `KeepsRange`: `sdsrange` is
  right for every pair of ints on strings shorter than `INT_MAX`; an index
  before the first byte counts as the first; a longer string becomes empty.
  `Accounted`: the count is the sum over the live blocks.

The other runs state what a document or comment says, and TLC finds a
behaviour of the code against it:

| Run | Statement | What happens |
|---|---|---|
| `every_subscriber_registered` | `src/README.md:14`: messages are published to "this subscriber" | the second subscriber of a topic is answered `+subscribe` and not registered (`subcli.c:327`) |
| `registry_names_clients` | `broker.h:31`: a topic maps to "clients who subscribed this key" | after a release it maps to freed memory (`subcli.c:99`) |
| `sends_resp` | `src/README.md:16`: replies are RESP | EAGAIN makes the next send repeat bytes inside a reply (`subcli.c:399`) |
| `executes_whole_commands` | `subcli.c:209`: "Still not read to process the command" | a command cut after an argument is executed without the rest (`subcli.c:302`) |

Seen while modelling and not the subject of a run: the publisher never gets the
response `src/README.md:17` mentions; an insertion during an iteration may
rehash or evict, which leaves the iterator on a freed entry that `ght_next`
(`ght_hash_table.c:642`) then reads, although `ght_hash_table.h:401` only says
that the new entry "might or might not occur" (`GhtNextFreed`; no table in the
broker is walked while it grows); `sdsrange` empties a string longer than
`INT_MAX`, although the comment at `sds.c:582` makes no exception; a command
longer than 16 KiB may be executed in part and then parsed again
(`BulkTooBig`); nothing checks that the pid was written (`broker.c:176`).

## 4. Fairness

- A handler that was called returns: it is straight-line code and loops over its
  own data. `WF` on `PublishNext`, on `Parse`, and on `Next` of `TrieWalk`.
- Events are level-triggered and libevent runs every event one poll reported
  before it polls again. In `Broker` a handler is disabled while a publish runs,
  so this is `SF` on the reading handlers. None is assumed for `SendReply`:
  writing yields to reading.
- In `SubWriter`, `WF` on reading a command, on sending, and on the peer reading
  all it was sent. The peer's is the one assumption about the environment.
- Peers are not assumed to send, to publish or to leave.
- `ServerProcess` and `Sds` are checked for safety only: a process waits for
  nothing between two of its steps, and a string's caller may stop.

## 5. Proofs

| Theorem | Says |
|---|---|
| `SubWriterProofs!TypeCorrect`, `BufferBounded`, `InterestExact` | `TypeOK`, `WbufInBounds`, `WriteInterest` for all messages and sizes of buffer and socket |
| `SubWriterProofs!StreamExact`, `StreamComplete`, `RepliesWhole` | `ExactUntilCut`, `NothingLost`, `WholeWhileRoom`, however many replies and cut sends |
| `BrokerProofs!TypeCorrect` | `TypeOK` for any descriptors, addresses, topics, messages |
| `BrokerProofs!RegistryInStep` | `RegistryAgrees`, whatever topics share a key |
| `BrokerProofs!RepliesWatched` | `WatchedForReplies`, for any number of clients |
| `BrokerProofs!EntriesHonest` | `RegistryHonest`, whatever handlers stale events call |
| `BrokerProofs!SafeBeforeDeparture` | `SafeUntilDeparture`, for any number of clients and addresses |
| `BrokerProofs!FirstOwns` | `OwnedByFirst`: `Broker` implements `TopicOwner` |
| `TrieWalkProofs!TypeCorrect`, `LookupsArePrefixes`, `EveryTopicFound` | `TypeOK`, `LooksUpPrefixes`, `FindsEveryTopic`, for every alphabet, trie and message |
| `SubProtocolProofs!TypeCorrect`, `CommandsExecuted`, `StuckForGood` | `TypeOK`, `ExecutesCommands`, `Wedged`, for any commands of any length, cut anywhere |
| `ServerProcessProofs!TypeCorrect` | `TypeOK`, for any configuration files |
| `ServerProcessProofs!LoopServed`, `OneServes` | `LoopServes`, `OneSurvives`, for any number of processes with any settings |
| `ServerProcessProofs!PidFileTrue` | `PidFileNames` |
| `ServerProcessProofs!IdsGivenOnce`, `FirstKept` | `IdsDistinct`, `TableKeepsFirst`, for any number of subscribers, any clock and any start of the counter |
| `SdsProofs!TypeCorrect`, `StaysInBlock`, `RangeRight`, `MemoryCounted` | `TypeOK`, `Fits`, `KeepsRange`, `Accounted`, for `int` and `size_t` of any width and any texts whose lengths an `int` holds (`KeepsRange` for any string as long as an `int` can say) |
| `GhtHashTableProofs!TypeCorrect`, `ListsLinked`, `NothingLeaks`, `WalksComplete`, `RemovalsAreSafe` | `TypeOK`, `Linked`, `NoLeaks`, `WalkComplete`, `RemovalIsSafe`, for any keys (up to 2^30), hashes and bucket limits |
| `GhtHashTableProofs!KeepsInsertionOrder` | `KeepsOrder`: `GhtHashTable` implements `OrderedMap` |

Every inductive invariant below was an invariant of a TLC run before its proof
was written. Assumptions: those the modules name (`SockAssumption`, `WbufAssumption`,
`NoneAssumption` and so on), each evaluated by TLC for the constants it uses.

`ReplyOpsProofs` proves once what every reply does to a buffer (`Replied`): it
stays in bounds and `EV_WRITE` is set exactly when it is not empty. The
invariant of `SubWriter` is then inductive as it stands.

In `Broker`, `WatchedForReplies` is not inductive: a write through a pointer to
freed memory re-registers the event of *the descriptor found in the stale
bytes*, and if that descriptor were another client's, the other's event would
be replaced. What rules it out is that descriptors are never reused:

- `UsedFds`: the descriptor in any struct, live or released, has been accepted;
- `OwnFd`: no two structs hold the same descriptor;
- `LiveFd`: a live struct has one;
- `WatchArg`: an event with `EV_WRITE` belongs to a struct;
- `BusyWork`: clients are waiting to be served only during a publish.

`IInv` is their conjunction with `TypeOK`, `RegistryAgrees` and
`WatchedForReplies`. `ReplyKeeps`, `ReleaseKeeps` and `AcceptKeeps` prove the
three ways a handler changes memory, and `NextIInv` has one step per action. The
argument shows what a fix has to keep in mind: closing descriptors on release
without removing the client from the tables would break `OwnFd`.

What a publish can meet is a second invariant of `Broker`, `HInv`, above
`IInv`. Ids are counted, so no two clients have one (`IdsCounted`), and an entry
that a publish still has to serve is in the table (`WorkEntries`): so an entry
whose address holds another client's struct is told from one that is its own,
which is `RegistryHonest`. `SafeUntilDeparture` is about the broker before a
publish has met a released client; then every event leads to a living client
whose descriptor is the event's own (`Quiet`), and once one has, an entry exists
whose client is gone (`Departed`), for good, since no code takes it out. For
`FirstOwns`, `SubscribeClaims` shows that a `subscribe` gives free topics to the
caller and touches no other; every other step leaves `subscibe_table` alone.

The record of `SubWriterHistory` carries its own invariant, `RecordOK`: the
units complete sends wrote stand in the stream in order, and with what waits in
the buffer they are what was accepted; without a cut that is all of the stream;
without a refusal the accepted units are whole replies.

In `TrieWalk` the position of the walk, the cut message and the names found are
related by eight conjuncts: the state of the trie is the message up to the
position, or stopped (`PathOK`); the copy differs from the message at no more
than the byte that was last cut (`PrefixOK`); a key that was found is looked up
before the walk goes on (`FoundOK`, `NothingMissed`, `DoneOK`); names looked up
are prefixes and grow (`LookupsOK`).

`SubProtocol` has the longest proof. Its invariant says where an orderly
connection is: between two commands or with a part of an inline line read
(`Waiting`), or with one command read whole and not executed (`Handling`), and
there with its first n arguments taken, `pos` at the start of the next header or
behind it (`InArguments`). What remains is that the parsers undo what the
subscriber's end does: `MultiIs` and `MultiAt` place every header and argument
of a multibulk command, by `Pieces`, which gives the structure of `FlattenSeq`;
`WordsFound`, `WordRanks` and `SplitWords` show that `SplitArgs` returns the
arguments of an inline line. Facts about recursive functions such as
`FlattenSeq` need induction over the naturals, and the library's theorem for it
takes an operator; `Smallest` states it for sets instead, a set of naturals that
is not empty has a least element, from the well-foundedness of `<`. `Wedged`
follows from the types alone: with a bad header first in the buffer, no later
read changes what the parser sees.

`LoopServes` needs that a process's step and its sockets agree (`Stages`) and
that no two listening sockets overlap, those of one process included (`Apart`).
It is `Listen` that keeps them apart, not `Bind`, and a process reads its
settings before it listens on anything. With the same two
invariants `OneServes` is short: who is refused sees a socket that listens; it
is not its own other socket, because two different ports stay different as text
(`PortKept`); so another process is alive.

`PidFileNames` follows from two facts about processes past the opening of their
file: two with one path are both recorded (`Shared`), and one that is not
recorded is named by its path (`Written`). `IdsDistinct` needs that counts are
increasing and are the last part of the id below the limit (`Numbered`).
`TableKeepsFirst` needs that each id given is in the table (`Listed`), so that an
insertion that finds the id comes after its first holder.

The invariant of `Sds` is that strings are `Good`: the text fits in its block
with the terminator, and `len + free + 1` is the size of the block up to a
multiple of the ints there are. The second part is what a header can still know
once a capacity has wrapped, and every function keeps it because it keeps sums
(`SameSum`, `SameShift`); with the first it gives that the free space is never
more than there is (`RoomLeft`). There is one lemma per function: in
`MakeRoomIs` and `CpyGood` a length that is subtracted in `size_t` wraps and
comes back, in `RangeIs` a length above `INT_MAX` turns negative.
`MemoryCounted` needs that a sum over a set does not depend on the order that
`CHOOSE` takes its elements in (`TotalSplit`), and that `zmalloc`'s prefix is a
whole word, so that padding with it or without it differs by the word
(`PaddedIs`): `zrealloc` counts blocks without it.

The hash table's invariant says that there is a list of entries, the one by
age, of which the table is `Good`: `p_newer` and `p_older` lead through it
forwards and backwards (`Aged`); in every bucket `p_next` and `p_prev` lead
through a list that has the held entries of that hash and is as long as `p_nr`
says (`Bucketed`); the entries with data are those of the list, and an entry
that is not in it has no `p_prev` and no `p_newer` (`Cleared`), as `he_finalize`
leaves it and `he_create` makes it. `IInv` is that, with the types of the flags
and `Walked` below. `List` is the common notion of a doubly linked list, and `ListPrepend`, `ListAppend`, `ListRemove`,
`ListToFront` and `ListSwap` prove once what relinking one does to the sequence
behind it; each C function is then a few of them. A function that touches one
chain leaves the others alone (`OtherChains`). `Follow`, which reads a chain off
the links, is a recursive function: `PathsExist` gives it its values and
`FollowIs` shows that on a `List` it returns the list, which it can because a
list has no entry twice and so no more than there are keys. The loops of
`ght_rehash` and `ght_finalize` are folds; `FoldingExists` gives their
intermediate tables, and `CarryGood` and `FreeChain` are their invariants. The
automatic rehash needs `DoubledSize`: a table that doubles had room to.

`WalkComplete` needs that what a walk still owes is ahead of the iterator in the
list by age, and `RemovalIsSafe` that nothing a walk has returned is (`Walked`).
A step keeps this because what it does not remove keeps its order (`Keeps`), and
because an entry it frees is not the one the iterator leads to (`WalkGoesOn`);
where it is, `iter.p_next` is `FREED` and the walk owes nothing any more
(`NextFreedWalks`). `RemovalKeepsNext` is then short: the header allows to
remove what was returned, and the iterator leads to the first entry ahead.
`AddStep`, `ChangeStep` and
`DropStep` map the steps to those of `OrderedMap`; lookups, rehashes and the
heuristics' reordering are stutters.

Only model-checked: liveness, for which the prover has no rules
(`EventuallyFlushed`, `RequestHandled`, `DepartureNoticed`, `PublishEnds`,
`HandlerReturns`). Every other property of a passing run is a theorem. Of the
hash table's invariant TLC checked the form without quantifiers over sequences,
on the instance of `hash_table`.

## 6. Not modelled

- Failure of `malloc`, `event_new` and `event_add` on a live client. The code's
  branches for it (such as `subcli.c:370`, which frees the client and goes on)
  are listed among the hazards.
- What a corrupted heap does beyond a crash or the use of stale bytes, such as
  an address that `malloc` gives out twice after a double free.
- In `Broker` ids are distinct numbers; `ServerProcess` has the end of the
  counter. The counter does not overflow as an `int`.
- In `Broker` a read returns one whole command or message; `SubProtocol` has the
  cuts for subscribers. For publishers the code makes each read a message. Peers
  wait while a publish is under way, since no handler could see what they do.
- `list.c`: the Makefile does not link it and nothing calls it, so there is no
  use of it to model.
- Logging, hash functions, cJSON, the digit loops of `string2ll` and `rand_int64`,
  which the models have by their results (`Number`, `RandInt64`).
- Of `sds.c`: formatting, comparing, splitting, joining, quoting, case mapping;
  they allocate through the modelled functions and keep no state. Of `zmalloc.c`:
  running out of memory, which aborts, and the reports read from `/proc`.
- Of `net.c`: `socket` and `setsockopt` do not fail, `getaddrinfo` gives one
  address, settings for ports are not negative. The setters of O_NONBLOCK and
  TCP_NODELAY have no state in the models.
- `server_free` and the end of `main`: nothing ends the event loop.
- In `GhtHashTable` the callback of a bounded bucket leaves the table alone and
  what it returns is ignored, as the code does; allocation does not fail.

## 7. Plan

Done, in this order: the reply path, the broker with its registry and memory,
publishing, the protocol, the hash table; processes, files and ids; strings and
the allocator's count; the proofs of section 5.

Next, models:
1. A check of `string2ll` against a definition over bounded inputs.
2. `sdssplitargs` with its quotes and escapes, against the words it stands for.
