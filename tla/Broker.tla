------------------------------- MODULE Broker -------------------------------
(***************************************************************************)
(* The broker process: accepting publishers and subscribers, the commands  *)
(* of a subscriber, the topic registry, publishing, and the release of     *)
(* clients whose peer has gone (event.c, protocol/subcli.c,                *)
(* protocol/pubcli.c).  libevent runs one handler at a time; a handler is  *)
(* one action, except a publish, whose loops over topics and clients are   *)
(* stepped through while every other handler waits.                        *)
(*                                                                         *)
(* A sub_client is a struct at an address.  Releasing it frees the memory  *)
(* and nothing else: the tables keep the pointer, the descriptor stays     *)
(* open, the bytes stay in place until malloc hands the address out again. *)
(* A handler that follows such a pointer does what the build may do: the   *)
(* process goes down, or it works on the bytes that happen to be there.    *)
(***************************************************************************)
EXTENDS ReplyOps

CONSTANTS
  Fds,          \* descriptors the process may open for its clients
  Addrs,        \* addresses malloc may return for a sub_client
  Topics,       \* arguments of subscribe
  KeyOf,        \* KeyOf[t]: the string the trie sees for t, what iconv
                \* converts of t: up to the first NUL or invalid byte
  Storable,     \* the topics whose key is in libdatrie's alphabet, [a-zA-Z]
  PrefixesOf,   \* PrefixesOf[m]: nonempty prefixes of m, shortest first, that
                \* the walk over the trie may stop at (TrieWalk)
  Requests,     \* the commands subscribers send
  NoFd, NoAddr, NoMsg

ASSUME StorableAssumption == Storable \subseteq Topics
ASSUME KeyAssumption    == KeyOf \in [Topics -> Topics]
ASSUME PrefixAssumption   == PrefixesOf \in [Msgs -> Seq(Topics)]
ASSUME NoneAssumption     ==
  NoFd \notin Fds /\ NoAddr \notin Addrs /\ NoMsg \notin Msgs

(* The topics of a subscribe; the arguments of the others have no effect.  *)
Request   == [op : Ops, topics : SUBSET Topics]
NoRequest == [op |-> "none", topics |-> {}]

ASSUME RequestAssumption == Requests \subseteq Request

SubClient == [fd : Fds \cup {NoFd}, id : Nat, reply : Replies]
Entry     == [id : Nat, cli : Addrs]
Watch     == [arg : Addrs \cup {NoAddr}, write : BOOLEAN]
NoWatch   == [arg |-> NoAddr, write |-> FALSE]
Work      == [msg : Msgs \cup {NoMsg}, next : Nat \ {0}, clients : SUBSET Entry]
NoWork    == [msg |-> NoMsg, next |-> 1, clients |-> {}]

VARIABLES
  conn,             \* conn[f]: what f was accepted as
  peer,             \* peer[f]: the other end is "open" or "closed"
  request,          \* request[f]: a command sent on f and not read yet
  message,          \* message[f]: a message sent on f and not read yet
  cli,              \* cli[a]: the bytes of the sub_client at address a
  live,             \* addresses allocated to a client
  watch,            \* watch[f]: the event registered for sub_ev_handler on f
  pub_watch,        \* descriptors registered for pub_ev_handler
  sub_inc_counter,  \* server.sub_inc_counter, from 0
  subcli_table,     \* server.subcli_table, as its set of entries
  sub_trie,         \* the keys of server.sub_trie
  subscibe_table,   \* subscibe_table[t]: the hset of topic t, {} if none
  work,             \* the publish under way
  up,               \* the process is running
  acked,            \* history: topics answered with "+subscribe" on f
  touched           \* history: a publish followed a pointer to freed memory

sockets  == <<conn, peer, request, message>>
memory   == <<cli, live, watch>>
registry == <<sub_inc_counter, subcli_table, sub_trie, subscibe_table>>
vars == <<sockets, memory, pub_watch, registry, work, up, acked, touched>>

Init ==
  /\ conn = [f \in Fds |-> "none"]
  /\ peer = [f \in Fds |-> "open"]
  /\ request = [f \in Fds |-> NoRequest]
  /\ message = [f \in Fds |-> NoMsg]
  /\ cli = [a \in Addrs |-> [fd |-> NoFd, id |-> 0, reply |-> NoReply]]
  /\ live = {}
  /\ watch = [f \in Fds |-> NoWatch]
  /\ pub_watch = {}
  /\ sub_inc_counter = 0
  /\ subcli_table = {}
  /\ sub_trie = {}
  /\ subscibe_table = [t \in Topics |-> {}]
  /\ work = NoWork
  /\ up = TRUE
  /\ acked = [f \in Fds |-> {}]
  /\ touched = FALSE

(* The event loop is in event_base_dispatch, about to call a handler. *)
Idle == up /\ work = NoWork

-----------------------------------------------------------------------------
(* The peers.  What they do while a publish is under way is seen by no     *)
(* handler before it is over, so they wait for its end.                    *)

SendRequest(f, r) ==
  /\ Idle
  /\ conn[f] = "sub" /\ peer[f] = "open" /\ request[f] = NoRequest
  /\ request' = [request EXCEPT ![f] = r]
  /\ UNCHANGED <<conn, peer, message, memory, pub_watch, registry, work, up,
                 acked, touched>>

SendMessage(f, m) ==
  /\ Idle
  /\ conn[f] = "pub" /\ peer[f] = "open" /\ message[f] = NoMsg
  /\ message' = [message EXCEPT ![f] = m]
  /\ UNCHANGED <<conn, peer, request, memory, pub_watch, registry, work, up,
                 acked, touched>>

(* What the broker has not read yet is still there for it to read, unless  *)
(* the connection is reset.                                                *)
ClosePeer(f) ==
  /\ Idle
  /\ conn[f] # "none" /\ peer[f] = "open"
  /\ peer' = [peer EXCEPT ![f] = "closed"]
  /\ \/ UNCHANGED <<request, message>>
     \/ /\ request' = [request EXCEPT ![f] = NoRequest]
        /\ message' = [message EXCEPT ![f] = NoMsg]
  /\ UNCHANGED <<conn, memory, pub_watch, registry, work, up, acked, touched>>

-----------------------------------------------------------------------------
(* Accepting.  No descriptor is ever closed, so none is handed out twice;  *)
(* when all are taken accept fails with EMFILE and nothing changes.        *)

AcceptPub(f) ==
  /\ Idle
  /\ conn[f] = "none"
  /\ conn' = [conn EXCEPT ![f] = "pub"]
  /\ pub_watch' = pub_watch \cup {f}
  /\ UNCHANGED <<peer, request, message, memory, registry, work, up, acked,
                 touched>>

DownwardId == sub_inc_counter - 1     \* mutant: counts down
RepeatedId == sub_inc_counter         \* mutant: forgets to count

NextId == sub_inc_counter + 1

(* sub_cli_create at a, whatever a held before; event_new; ght_insert. *)
AcceptSub(f, a) ==
  /\ Idle
  /\ conn[f] = "none" /\ a \notin live
  /\ conn' = [conn EXCEPT ![f] = "sub"]
  /\ sub_inc_counter' = NextId
  /\ cli' = [cli EXCEPT ![a] = [fd |-> f, id |-> NextId, reply |-> NoReply]]
  /\ live' = live \cup {a}
  /\ watch' = [watch EXCEPT ![f] = [arg |-> a, write |-> FALSE]]
  /\ subcli_table' = subcli_table \cup {[id |-> NextId, cli |-> a]}
  /\ UNCHANGED <<peer, request, message, pub_watch, sub_trie, subscibe_table,
                 work, up, acked, touched>>

-----------------------------------------------------------------------------
(* What handlers do to a sub_client. *)

(* The reply part of the struct at a becomes c; where that changes         *)
(* EV_WRITE, subcli_event_update re-registers the client's event, on the   *)
(* struct's own descriptor.                                                *)
ReplyKeepsEvent(a, c) ==         \* mutant: the event is not re-registered
  cli' = [cli EXCEPT ![a].reply = c] /\ UNCHANGED <<watch, live>>

ReplyDropsEvent(a, c) ==         \* mutant: no EV_WRITE, no event at all
  /\ cli' = [cli EXCEPT ![a].reply = c]
  /\ watch' = IF c.write = cli[a].reply.write THEN watch
              ELSE [watch EXCEPT ![cli[a].fd] = IF c.write
                      THEN [arg |-> a, write |-> TRUE] ELSE NoWatch]
  /\ UNCHANGED live

Reply(a, c) ==
  /\ cli' = [cli EXCEPT ![a].reply = c]
  /\ watch' = IF c.write = cli[a].reply.write THEN watch
              ELSE [watch EXCEPT ![cli[a].fd] = [arg |-> a, write |-> c.write]]
  /\ UNCHANGED live

(* sub_cli_release: event_del and free. *)
ReleaseKeepsEvent(a) ==          \* mutant: no event_del
  live' = live \ {a} /\ UNCHANGED <<cli, watch>>

Release(a) ==
  /\ watch' = [watch EXCEPT ![cli[a].fd] = NoWatch]
  /\ live' = live \ {a}
  /\ UNCHANGED cli

(* What following a pointer to the freed struct at a may do instead of     *)
(* what the source says: the process dies, or, on bytes that mean nothing  *)
(* any more, libevent refuses the event and nothing changes.               *)
Crash == up' = FALSE /\ UNCHANGED memory

Dangling(a) == a \notin live /\ (Crash \/ UNCHANGED <<memory, up>>)

(* subscribe_channel for every argument in turn.  Only a topic whose key   *)
(* the trie does not hold yet gets a set, with this client as its one      *)
(* member: one argument for each new key.  A topic the trie refuses is     *)
(* skipped.  The set is filed under the topic, not under its key.          *)
NewSets(a, new) ==
  /\ sub_trie' = sub_trie \cup {KeyOf[t] : t \in new}
  /\ subscibe_table' = [t \in Topics |->
       IF t \in new THEN {[id |-> cli[a].id, cli |-> a]} ELSE subscibe_table[t]]

SubscribeReplaces(a, T) ==       \* mutant: a topic in use gets a new set
  NewSets(a, T \cap Storable)

SubscribeIgnoresTrie(a, T) ==    \* mutant: trie_store may fail unnoticed
  NewSets(a, {t \in T : KeyOf[t] \notin sub_trie})

SubscribeChannels(a, T) ==
  \E new \in SUBSET (T \cap Storable) :
    /\ \A t \in new : KeyOf[t] \notin sub_trie
    /\ \A t, u \in new : KeyOf[t] = KeyOf[u] => t = u
    /\ NewSets(a, new)
    /\ \A t \in T \cap Storable : KeyOf[t] \in sub_trie'

(***************************************************************************)
(* The event on f calls sub_ev_handler with f and the struct at a it was   *)
(* registered with.  That is f's own client until a publish follows a      *)
(* pointer to a released one.  Then a may be free, or hold a later client: *)
(* the handler reads from f but queues, writes and releases for a.         *)
(***************************************************************************)

(* On EV_READ with a whole command: process_command.  The answer goes to   *)
(* the descriptor of the struct.                                           *)
ReadRequest(f) ==
  LET a == watch[f].arg
      r == request[f]
  IN
  /\ Idle
  /\ a # NoAddr /\ r # NoRequest
  /\ request' = [request EXCEPT ![f] = NoRequest]
  /\ \/ /\ r.op # "subscribe" /\ Reply(a, Answer(r.op, cli[a].reply))
        /\ UNCHANGED <<sub_trie, subscibe_table, acked, up>>
     \/ /\ r.op = "subscribe" /\ SubscribeChannels(a, r.topics)
        /\ Reply(a, Answer(r.op, cli[a].reply))
        /\ acked' = [acked EXCEPT ![cli[a].fd] = @ \cup r.topics]
        /\ UNCHANGED up
     \/ Dangling(a) /\ UNCHANGED <<sub_trie, subscibe_table, acked>>
  /\ UNCHANGED <<conn, peer, message, pub_watch, sub_inc_counter, subcli_table,
                 work, touched>>

(* On EV_READ at end of file, or when read fails because the connection    *)
(* was reset: what is freed already is freed a second time.                *)
ReadEof(f) ==
  LET a == watch[f].arg IN
  /\ Idle
  /\ a # NoAddr /\ peer[f] = "closed" /\ request[f] = NoRequest
  /\ \/ Release(a) /\ UNCHANGED up
     \/ Dangling(a)
  /\ UNCHANGED <<sockets, pub_watch, registry, work, acked, touched>>

(* On EV_WRITE, which is looked at only when there is nothing to read.     *)
(* EAGAIN before everything is sent changes nothing.                       *)
WriteReady(f) ==
  /\ Idle
  /\ watch[f].write
  /\ peer[f] = "open" /\ request[f] = NoRequest

SendReply(f) ==
  LET a == watch[f].arg IN
  /\ WriteReady(f) /\ cli[a].reply.wbuf # <<>>
  /\ \/ Reply(a, NoReply) /\ UNCHANGED up
     \/ Dangling(a)
  /\ UNCHANGED <<sockets, pub_watch, registry, work, acked, touched>>

(* The peer of the struct's descriptor resets the connection after the     *)
(* loop polled it: EPIPE.                                                  *)
SendFails(f) ==
  LET a == watch[f].arg IN
  /\ WriteReady(f) /\ cli[a].reply.wbuf # <<>>
  /\ peer' = [peer EXCEPT ![cli[a].fd] = "closed"]
  /\ Release(a)
  /\ UNCHANGED <<conn, request, message, pub_watch, registry, work, up, acked,
                 touched>>

(* A struct that is not f's may have nothing queued.  The loop is not      *)
(* entered and nwritelen is whatever it was: send_reply_to_subcli returns, *)
(* releases the client, or registers its event without EV_WRITE.           *)
SendNothing(f) ==
  LET a == watch[f].arg IN
  /\ WriteReady(f) /\ cli[a].reply.wbuf = <<>>
  /\ \/ UNCHANGED <<memory, up>>
     \/ Release(a) /\ UNCHANGED up
     \/ /\ watch' = [watch EXCEPT ![cli[a].fd] = [arg |-> a, write |-> FALSE]]
        /\ UNCHANGED <<cli, live, up>>
     \/ Dangling(a)
  /\ UNCHANGED <<sockets, pub_watch, registry, work, acked, touched>>

-----------------------------------------------------------------------------
(* pub_ev_handler: one read is one message (process_pub_read_buf). *)
ReadMessage(f) ==
  /\ Idle
  /\ f \in pub_watch /\ message[f] # NoMsg
  /\ work' = [NoWork EXCEPT !.msg = message[f]]
  /\ message' = [message EXCEPT ![f] = NoMsg]
  /\ UNCHANGED <<conn, peer, request, memory, pub_watch, registry, up, acked,
                 touched>>

PubEof(f) ==
  /\ Idle
  /\ f \in pub_watch /\ message[f] = NoMsg /\ peer[f] = "closed"
  /\ pub_watch' = pub_watch \ {f}
  /\ UNCHANGED <<sockets, memory, registry, work, up, acked, touched>>

(* The next prefix: if the walk finds it in the trie, single_chan_publish. *)
(* Behind what iconv converted the walk goes on to a key's terminator and, *)
(* where the uninitialised characters are 0, stops again at longer names.  *)
Walked(t) == IF t = KeyOf[t] THEN {t \in sub_trie} ELSE {KeyOf[t] \in sub_trie, FALSE}

NextTopic ==
  /\ up
  /\ work.msg # NoMsg /\ work.clients = {}
  /\ work.next <= Len(PrefixesOf[work.msg])
  /\ LET t == PrefixesOf[work.msg][work.next] IN
       \E found \in Walked(t) :
         work' = [work EXCEPT !.next = @ + 1,
                    !.clients = IF found THEN subscibe_table[t] ELSE {}]
  /\ UNCHANGED <<sockets, memory, pub_watch, registry, up, acked, touched>>

(* add_reply_bulk on a client of the topic's set. *)
PublishTo(e) ==
  LET a == e.cli IN
  /\ up
  /\ e \in work.clients
  /\ work' = [work EXCEPT !.clients = @ \ {e}]
  /\ touched' = (touched \/ a \notin live)
  /\ \/ Reply(a, AddReplyBulk(cli[a].reply, work.msg)) /\ UNCHANGED up
     \/ Dangling(a)
  /\ UNCHANGED <<sockets, pub_watch, registry, acked>>

PublishDone ==
  /\ up
  /\ work.msg # NoMsg /\ work.clients = {}
  /\ work.next > Len(PrefixesOf[work.msg])
  /\ work' = NoWork
  /\ UNCHANGED <<sockets, memory, pub_watch, registry, up, acked, touched>>

-----------------------------------------------------------------------------
PeerNext(f) ==
  \/ \E r \in Requests : SendRequest(f, r)
  \/ \E m \in Msgs : SendMessage(f, m)
  \/ ClosePeer(f)

HandlerNext(f) ==
  \/ AcceptPub(f)
  \/ \E a \in Addrs : AcceptSub(f, a)
  \/ ReadRequest(f)
  \/ ReadEof(f)
  \/ SendReply(f)
  \/ SendFails(f)
  \/ SendNothing(f)
  \/ ReadMessage(f)
  \/ PubEof(f)

PublishNext ==
  \/ NextTopic
  \/ \E e \in work.clients : PublishTo(e)
  \/ PublishDone

Next ==
  \/ \E f \in Fds : PeerNext(f) \/ HandlerNext(f)
  \/ PublishNext

Spec == Init /\ [][Next]_vars

(***************************************************************************)
(* A handler that was called returns.  libevent runs the handlers of all   *)
(* the events one poll reported before it polls again, so a descriptor     *)
(* that is readable whenever the loop polls is not passed over for ever,   *)
(* although its handler is disabled while a publish runs: strong fairness. *)
(***************************************************************************)
Fairness ==
  /\ WF_vars(PublishNext)
  /\ \A f \in Fds :
       /\ SF_vars(ReadRequest(f))
       /\ SF_vars(ReadEof(f))
       /\ SF_vars(ReadMessage(f))
       /\ SF_vars(PubEof(f))

FairSpec == Spec /\ Fairness

-----------------------------------------------------------------------------
TypeOK ==
  /\ conn \in [Fds -> {"none", "pub", "sub"}]
  /\ peer \in [Fds -> {"open", "closed"}]
  /\ request \in [Fds -> Requests \cup {NoRequest}]
  /\ message \in [Fds -> Msgs \cup {NoMsg}]
  /\ cli \in [Addrs -> SubClient]
  /\ live \subseteq Addrs
  /\ watch \in [Fds -> Watch]
  /\ pub_watch \subseteq Fds
  /\ sub_inc_counter \in Nat
  /\ subcli_table \subseteq Entry
  /\ sub_trie \subseteq Topics
  /\ subscibe_table \in [Topics -> SUBSET Entry]
  /\ work \in Work
  /\ up \in BOOLEAN
  /\ acked \in [Fds -> SUBSET Topics]
  /\ touched \in BOOLEAN

-----------------------------------------------------------------------------
(* The client an entry was made for is the one its pointer leads to. *)
Current(e) == e.cli \in live /\ cli[e.cli].id = e.id

Entries == UNION {subscibe_table[t] : t \in Topics}

(* f's own client handles its events. *)
Served(f) == watch[f].arg \in live /\ cli[watch[f].arg].fd = f

(***************************************************************************)
(* The trie and the hash table, updated by two calls and under names that  *)
(* may differ, stay in step: the trie's keys are those of the topics that  *)
(* have a set, and two topics with one key never both have one.  A set has *)
(* one member: it is made for the first subscriber only.                   *)
(***************************************************************************)
InUse == {t \in Topics : subscibe_table[t] # {}}

RegistryAgrees ==
  /\ sub_trie = {KeyOf[t] : t \in InUse}
  /\ InUse \subseteq Storable
  /\ \A t, u \in InUse : KeyOf[t] = KeyOf[u] => t = u
  /\ \A t \in Topics : \A d, e \in subscibe_table[t] : d = e

(***************************************************************************)
(* The topic of every entry is one its client was told it has subscribed;  *)
(* so a message published through an entry that is still current goes to a *)
(* client that asked for it.  The condition matters: when malloc has       *)
(* reused the address, the entry leads to a client that may not have.      *)
(***************************************************************************)
RegistryHonest ==
  \A t \in Topics : \A e \in subscibe_table[t] :
    Current(e) => t \in acked[cli[e.cli].fd]

(***************************************************************************)
(* The event registered for a client is on the client's own descriptor and *)
(* carries EV_WRITE exactly while replies wait, through every              *)
(* re-registration by prepare_to_write and send_reply_to_subcli and        *)
(* whatever the events left over from released clients do.                 *)
(***************************************************************************)
WatchedForReplies ==
  \A a \in live :
    /\ watch[cli[a].fd] = [arg |-> a, write |-> cli[a].reply.write]
    /\ cli[a].reply.write <=> cli[a].reply.wbuf # <<>>

(***************************************************************************)
(* Only a client that subscribed and left can bring the broker down or     *)
(* take another client's service away, and only once a message has been    *)
(* published to its topic: until then the process is up and every open     *)
(* connection's events reach its own client.                               *)
(***************************************************************************)
SafeUntilDeparture ==
  /\ touched => \E e \in Entries : ~Current(e)
  /\ ~touched => /\ up
                /\ \A f \in Fds : conn[f] = "sub" /\ peer[f] = "open" => Served(f)

(***************************************************************************)
(* Every command is read and every departed peer's event is taken off the  *)
(* loop, unless a publish has followed a pointer to a released client: its *)
(* event may then come back and release a client that is not its own.      *)
(***************************************************************************)
RequestHandled ==
  \A f \in Fds : request[f] # NoRequest ~> (request[f] = NoRequest \/ touched)

DepartureNoticed ==
  \A f \in Fds :
    peer[f] = "closed" ~>
      (touched \/ (watch[f] = NoWatch /\ f \notin pub_watch))

(* The registry implements TopicOwner. *)
OwnerOf(t) == IF subscibe_table[t] = {} THEN 0
              ELSE (CHOOSE e \in subscibe_table[t] : TRUE).id

Registry == INSTANCE TopicOwner WITH owner <- [t \in Topics |-> OwnerOf(t)]

OwnedByFirst == Registry!Spec

(***************************************************************************)
(* README.md says that any message starting with a subscribed topic will   *)
(* be published to the subscriber: a client told "+subscribe" for a topic  *)
(* should be in the topic's set.  It is not when another client, present   *)
(* or long gone, subscribed the topic first.                               *)
(***************************************************************************)
EverySubscriberRegistered ==
  \A a \in live : \A t \in acked[cli[a].fd] \cap Storable :
    \E e \in subscibe_table[t] : e.id = cli[a].id

(***************************************************************************)
(* broker.h calls subscibe_table a mapping from a subscribe key to the     *)
(* clients who subscribed it: an entry should lead to a client that        *)
(* exists, and to the one it names.                                        *)
(***************************************************************************)
RegistryNamesClients == \A e \in Entries : Current(e)

=============================================================================
