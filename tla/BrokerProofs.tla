---------------------------- MODULE BrokerProofs ----------------------------
(***************************************************************************)
(* Proofs about Broker, for any number of descriptors, addresses, topics   *)
(* and messages.                                                           *)
(***************************************************************************)
EXTENDS Broker, ReplyOpsProofs

(***************************************************************************)
(* What keeps WatchedForReplies inductive: descriptors are never reused,   *)
(* so the structs at two addresses, released or not, never have the same   *)
(* one, and what happens to one client's event cannot touch another's.     *)
(***************************************************************************)
UsedFds == \A a \in Addrs : cli[a].fd \in Fds => conn[cli[a].fd] = "sub"

OwnFd ==
  \A a, b \in Addrs : a # b /\ cli[b].fd \in Fds => cli[a].fd # cli[b].fd

LiveFd == \A a \in live : cli[a].fd \in Fds

(* An event with EV_WRITE belongs to a struct. *)
WatchArg == \A f \in Fds : watch[f].write => watch[f].arg # NoAddr

MemInv == UsedFds /\ OwnFd /\ LiveFd /\ WatchArg /\ WatchedForReplies

MemType ==
  /\ cli \in [Addrs -> SubClient]
  /\ live \subseteq Addrs
  /\ watch \in [Fds -> Watch]

(* Nobody is left to be served when no publish is under way. *)
BusyWork == work.msg = NoMsg => work.clients = {}

IInv == TypeOK /\ MemInv /\ RegistryAgrees /\ BusyWork

-----------------------------------------------------------------------------
(* The three ways a handler changes the clients' memory. *)

LEMMA ReplyKeeps ==
  ASSUME MemType, MemInv, NEW a \in Addrs, NEW c \in Replies,
         c.write <=> c.wbuf # <<>>,
         Reply(a, c), UNCHANGED conn
  PROVE  MemType' /\ MemInv'
<1>1. /\ cli' = [cli EXCEPT ![a].reply = c]
      /\ live' = live /\ conn' = conn
  BY DEF Reply
<1>2. /\ cli' \in [Addrs -> SubClient]
      /\ \A b \in Addrs : cli'[b].fd = cli[b].fd
      /\ cli'[a].reply = c
      /\ \A b \in Addrs \ {a} : cli'[b] = cli[b]
  BY <1>1 DEF MemType, SubClient
<1>3. c.write \in BOOLEAN /\ [arg |-> a, write |-> c.write] \in Watch
  BY DEF Replies, Watch
<1>4. watch' \in [Fds -> Watch]
  BY <1>3 DEF Reply, MemType
<1>5. MemType'
  BY <1>1, <1>2, <1>4 DEF MemType
<1>6. UsedFds' /\ OwnFd' /\ LiveFd'
  BY <1>1, <1>2 DEF MemInv, UsedFds, OwnFd, LiveFd, MemType
<1>7. WatchArg'
  BY <1>3, NoneAssumption DEF MemInv, WatchArg, Reply, MemType
<1>8. ASSUME NEW b \in live
      PROVE  /\ watch'[cli'[b].fd] = [arg |-> b, write |-> cli'[b].reply.write]
             /\ cli'[b].reply.write <=> cli'[b].reply.wbuf # <<>>
  <2>1. /\ b \in Addrs /\ cli[b].fd \in Fds
        /\ watch[cli[b].fd] = [arg |-> b, write |-> cli[b].reply.write]
        /\ cli[b].reply.write <=> cli[b].reply.wbuf # <<>>
    BY DEF MemType, MemInv, LiveFd, WatchedForReplies
  <2>2. CASE b = a /\ c.write = cli[a].reply.write
    BY <1>2, <2>1, <2>2 DEF Reply
  <2>3. CASE b = a /\ c.write # cli[a].reply.write
    <3>1. watch' = [watch EXCEPT ![cli[a].fd] = [arg |-> a, write |-> c.write]]
      BY <2>3 DEF Reply
    <3>2. watch'[cli[a].fd] = [arg |-> a, write |-> c.write]
      BY <2>1, <2>3, <3>1 DEF MemType
    <3> QED BY <1>2, <2>3, <3>2
  <2>4. CASE b # a
    <3>1. cli[a].fd # cli[b].fd
      BY <2>1, <2>4 DEF MemInv, OwnFd
    <3>2. watch'[cli[b].fd] = watch[cli[b].fd]
      BY <2>1, <3>1 DEF Reply, MemType
    <3> QED BY <1>2, <2>1, <2>4, <3>2
  <2> QED BY <2>2, <2>3, <2>4
<1>9. WatchedForReplies'
  BY <1>1, <1>8 DEF WatchedForReplies
<1> QED BY <1>5, <1>6, <1>7, <1>9 DEF MemInv

LEMMA ReleaseKeeps ==
  ASSUME MemType, MemInv, NEW a \in Addrs, Release(a), UNCHANGED conn
  PROVE  MemType' /\ MemInv'
<1>1. cli' = cli /\ live' = live \ {a} /\ conn' = conn
  BY DEF Release
<1>2. NoWatch \in Watch /\ NoWatch.write = FALSE
  BY DEF NoWatch, Watch
<1>3. MemType'
  BY <1>1, <1>2 DEF Release, MemType
<1>4. UsedFds' /\ OwnFd' /\ LiveFd'
  BY <1>1 DEF MemInv, UsedFds, OwnFd, LiveFd, MemType
<1>5. WatchArg'
  BY <1>2 DEF MemInv, WatchArg, Release, MemType
<1>6. ASSUME NEW b \in live'
      PROVE  watch'[cli[b].fd] = watch[cli[b].fd]
  <2>1. b \in Addrs /\ b # a /\ cli[b].fd \in Fds
    BY <1>1 DEF MemType, MemInv, LiveFd
  <2>2. cli[a].fd # cli[b].fd
    BY <2>1 DEF MemInv, OwnFd
  <2> QED BY <2>1, <2>2 DEF Release, MemType
<1>7. WatchedForReplies'
  BY <1>1, <1>6 DEF MemInv, WatchedForReplies
<1> QED BY <1>3, <1>4, <1>5, <1>7 DEF MemInv

(* The event of a struct with nothing queued is registered once more. *)
LEMMA RegisterKeeps ==
  ASSUME MemType, MemInv, NEW a \in Addrs, cli[a].reply.wbuf = <<>>,
         watch' = [watch EXCEPT ![cli[a].fd] = [arg |-> a, write |-> FALSE]],
         UNCHANGED <<cli, live, conn>>
  PROVE  MemType' /\ MemInv'
<1>1. [arg |-> a, write |-> FALSE] \in Watch
  BY DEF Watch
<1>2. MemType'
  BY <1>1 DEF MemType
<1>3. UsedFds' /\ OwnFd' /\ LiveFd'
  BY DEF MemInv, UsedFds, OwnFd, LiveFd
<1>4. WatchArg'
  BY DEF MemInv, WatchArg, MemType
<1>5. ASSUME NEW b \in live
      PROVE  watch'[cli[b].fd] = [arg |-> b, write |-> cli[b].reply.write]
  <2>1. /\ b \in Addrs /\ cli[b].fd \in Fds
        /\ watch[cli[b].fd] = [arg |-> b, write |-> cli[b].reply.write]
        /\ cli[b].reply \in Replies
        /\ cli[b].reply.write <=> cli[b].reply.wbuf # <<>>
    BY DEF MemType, MemInv, LiveFd, WatchedForReplies, SubClient
  <2>2. CASE b = a
    <3>1. cli[b].reply.write = FALSE
      BY <2>1, <2>2 DEF Replies
    <3>2. watch'[cli[b].fd] = [arg |-> a, write |-> FALSE]
      BY <2>1, <2>2 DEF MemType
    <3> QED BY <2>2, <3>1, <3>2
  <2>3. CASE b # a
    <3>1. cli[a].fd # cli[b].fd
      BY <2>1, <2>3 DEF MemInv, OwnFd
    <3> QED BY <2>1, <3>1 DEF MemType
  <2> QED BY <2>2, <2>3
<1>6. WatchedForReplies'
  BY <1>5 DEF MemInv, WatchedForReplies
<1> QED BY <1>2, <1>3, <1>4, <1>6 DEF MemInv

LEMMA AcceptKeeps ==
  ASSUME TypeOK, MemInv, NEW f \in Fds, NEW a \in Addrs, AcceptSub(f, a)
  PROVE  MemType' /\ MemInv'
<1> DEFINE s == [fd |-> f, id |-> NextId, reply |-> NoReply]
<1>1. /\ conn[f] = "none" /\ a \notin live
      /\ conn' = [conn EXCEPT ![f] = "sub"]
      /\ cli' = [cli EXCEPT ![a] = s]
      /\ live' = live \cup {a}
      /\ watch' = [watch EXCEPT ![f] = [arg |-> a, write |-> FALSE]]
  BY DEF AcceptSub
<1>2. s \in SubClient
  BY NoReplyType DEF TypeOK, NextId, SubClient
<1>3. [arg |-> a, write |-> FALSE] \in Watch
  BY DEF Watch
<1>4. MemType'
  BY <1>1, <1>2, <1>3 DEF TypeOK, MemType
<1>5. /\ cli'[a].fd = f /\ cli'[a].reply = NoReply
      /\ \A b \in Addrs \ {a} : cli'[b] = cli[b]
  BY <1>1 DEF TypeOK
<1>6. \A b \in Addrs : cli[b].fd \in Fds => cli[b].fd # f
  BY <1>1 DEF MemInv, UsedFds
<1>7. UsedFds'
  BY <1>1, <1>5, <1>6 DEF MemInv, UsedFds, TypeOK
<1>8. OwnFd'
  BY <1>5, <1>6 DEF MemInv, OwnFd
<1>9. LiveFd'
  BY <1>1, <1>5 DEF MemInv, LiveFd, TypeOK
<1>10. WatchArg'
  BY <1>1, <1>3, NoneAssumption DEF MemInv, WatchArg, TypeOK
<1>11. WatchedForReplies'
  <2>1. watch'[f] = [arg |-> a, write |-> FALSE]
    BY <1>1 DEF TypeOK
  <2>2. ASSUME NEW b \in live, b # a
        PROVE  /\ watch'[cli'[b].fd] = [arg |-> b, write |-> cli'[b].reply.write]
               /\ cli'[b].reply.write <=> cli'[b].reply.wbuf # <<>>
    <3>1. b \in Addrs /\ cli[b].fd \in Fds /\ cli[b].fd # f /\ cli'[b] = cli[b]
      BY <1>5, <1>6, <2>2 DEF TypeOK, MemInv, LiveFd
    <3>2. watch'[cli[b].fd] = watch[cli[b].fd]
      BY <1>1, <3>1 DEF TypeOK
    <3> QED BY <3>1, <3>2 DEF MemInv, WatchedForReplies
  <2> QED BY <1>1, <1>5, <2>1, <2>2, NoReplyType DEF WatchedForReplies
<1> QED BY <1>4, <1>7, <1>8, <1>9, <1>10, <1>11 DEF MemInv

LEMMA MemUnchanged ==
  ASSUME MemType, MemInv, UNCHANGED memory,
         \A f \in Fds : conn[f] = "sub" => conn'[f] = "sub"
  PROVE  MemType' /\ MemInv'
<1>1. cli' = cli /\ live' = live /\ watch' = watch
  BY DEF memory
<1> QED
  BY <1>1 DEF MemType, MemInv, UsedFds, OwnFd, LiveFd, WatchArg, WatchedForReplies

(* A handler that follows a pointer to freed memory and comes to nothing. *)
LEMMA DanglingKeeps ==
  ASSUME TypeOK, MemInv, NEW a \in Addrs, Dangling(a), UNCHANGED conn
  PROVE  MemType' /\ MemInv' /\ up' \in BOOLEAN
<1>1. UNCHANGED memory /\ up' \in BOOLEAN
  BY DEF Dangling, Crash, TypeOK
<1> QED BY <1>1, MemUnchanged DEF TypeOK, MemType

-----------------------------------------------------------------------------
(* The registry. *)

LEMMA RegistryUnchanged ==
  ASSUME RegistryAgrees, UNCHANGED <<sub_trie, subscibe_table>>
  PROVE  RegistryAgrees'
  BY DEF RegistryAgrees, InUse

LEMMA SubscribeKeeps ==
  ASSUME TypeOK, RegistryAgrees, NEW a \in Addrs, NEW T \in SUBSET Topics,
         SubscribeChannels(a, T)
  PROVE  /\ RegistryAgrees'
         /\ sub_trie' \subseteq Topics
         /\ subscibe_table' \in [Topics -> SUBSET Entry]
<1> DEFINE e == [id |-> cli[a].id, cli |-> a]
<1>1. PICK new \in SUBSET (T \cap Storable) :
        /\ \A t \in new : KeyOf[t] \notin sub_trie
        /\ \A t, u \in new : KeyOf[t] = KeyOf[u] => t = u
        /\ sub_trie' = sub_trie \cup {KeyOf[t] : t \in new}
        /\ subscibe_table' =
             [t \in Topics |-> IF t \in new THEN {e} ELSE subscibe_table[t]]
  BY DEF SubscribeChannels, NewSets
<1>2. new \subseteq Topics /\ new \subseteq Storable
  BY StorableAssumption
<1>3. e \in Entry
  BY DEF TypeOK, SubClient, Entry
<1>4. InUse' = InUse \cup new
  BY <1>1, <1>2 DEF InUse
<1>5. sub_trie' = {KeyOf[t] : t \in InUse'}
  BY <1>1, <1>4 DEF RegistryAgrees
<1>6. InUse' \subseteq Storable
  BY <1>2, <1>4 DEF RegistryAgrees
<1>7. \A t, u \in InUse' : KeyOf[t] = KeyOf[u] => t = u
  BY <1>1, <1>4 DEF RegistryAgrees
<1>8. \A t \in Topics : \A x, y \in subscibe_table'[t] : x = y
  BY <1>1 DEF RegistryAgrees
<1>9. sub_trie' \subseteq Topics
  BY <1>1, <1>2, KeyAssumption DEF TypeOK
<1>10. subscibe_table' \in [Topics -> SUBSET Entry]
  BY <1>1, <1>3 DEF TypeOK
<1> QED BY <1>5, <1>6, <1>7, <1>8, <1>9, <1>10 DEF RegistryAgrees

-----------------------------------------------------------------------------
LEMMA InitIInv == Init => IInv
<1> SUFFICES ASSUME Init PROVE IInv
  OBVIOUS
<1>1. NoWatch \in Watch /\ NoWatch.write = FALSE
  BY DEF NoWatch, Watch
<1>2. NoWork \in Work
  BY DEF NoWork, Work
<1>3. [fd |-> NoFd, id |-> 0, reply |-> NoReply] \in SubClient
  BY NoReplyType DEF SubClient
<1>4. TypeOK
  BY <1>1, <1>2, <1>3 DEF Init, TypeOK
<1>5. \A a \in Addrs : cli[a].fd \notin Fds
  BY NoneAssumption DEF Init
<1>6. MemInv
  BY <1>1, <1>5
  DEF Init, MemInv, UsedFds, OwnFd, LiveFd, WatchArg, WatchedForReplies
<1>7. RegistryAgrees /\ BusyWork
  BY DEF Init, RegistryAgrees, InUse, BusyWork, NoWork
<1> QED BY <1>4, <1>6, <1>7 DEF IInv

LEMMA NextIInv == IInv /\ [Next]_vars => IInv'
<1> SUFFICES ASSUME IInv, [Next]_vars PROVE IInv'
  OBVIOUS
<1> USE DEF sockets, registry
<1>1. TypeOK /\ MemInv /\ RegistryAgrees /\ MemType /\ BusyWork
  BY DEF IInv, TypeOK, MemType
<1>2. ASSUME NEW f \in Fds, NEW r \in Requests, SendRequest(f, r) PROVE IInv'
  <2>1. MemType' /\ MemInv'
    BY <1>1, <1>2, MemUnchanged DEF SendRequest
  <2>2. RegistryAgrees' /\ BusyWork'
    BY <1>1, <1>2, RegistryUnchanged DEF SendRequest, BusyWork
  <2>3. TypeOK'
    BY <1>1, <1>2, <2>1 DEF SendRequest, TypeOK, MemType
  <2> QED BY <2>1, <2>2, <2>3 DEF IInv
<1>3. ASSUME NEW f \in Fds, NEW m \in Msgs, SendMessage(f, m) PROVE IInv'
  <2>1. MemType' /\ MemInv'
    BY <1>1, <1>3, MemUnchanged DEF SendMessage
  <2>2. RegistryAgrees' /\ BusyWork'
    BY <1>1, <1>3, RegistryUnchanged DEF SendMessage, BusyWork
  <2>3. TypeOK'
    BY <1>1, <1>3, <2>1 DEF SendMessage, TypeOK, MemType
  <2> QED BY <2>1, <2>2, <2>3 DEF IInv
<1>4. ASSUME NEW f \in Fds, ClosePeer(f) PROVE IInv'
  <2>1. MemType' /\ MemInv'
    BY <1>1, <1>4, MemUnchanged DEF ClosePeer
  <2>2. RegistryAgrees' /\ BusyWork'
    BY <1>1, <1>4, RegistryUnchanged DEF ClosePeer, BusyWork
  <2>3. TypeOK'
    BY <1>1, <1>4, <2>1 DEF ClosePeer, TypeOK, MemType
  <2> QED BY <2>1, <2>2, <2>3 DEF IInv
<1>5. ASSUME NEW f \in Fds, AcceptPub(f) PROVE IInv'
  <2>1. \A g \in Fds : conn[g] = "sub" => conn'[g] = "sub"
    BY <1>1, <1>5 DEF AcceptPub, TypeOK
  <2>2. MemType' /\ MemInv'
    BY <1>1, <1>5, <2>1, MemUnchanged DEF AcceptPub
  <2>3. RegistryAgrees' /\ BusyWork'
    BY <1>1, <1>5, RegistryUnchanged DEF AcceptPub, BusyWork
  <2>4. TypeOK'
    BY <1>1, <1>5, <2>2 DEF AcceptPub, TypeOK, MemType
  <2> QED BY <2>2, <2>3, <2>4 DEF IInv
<1>6. ASSUME NEW f \in Fds, NEW a \in Addrs, AcceptSub(f, a) PROVE IInv'
  <2>1. MemType' /\ MemInv'
    BY <1>1, <1>6, AcceptKeeps
  <2>2. RegistryAgrees' /\ BusyWork'
    BY <1>1, <1>6, RegistryUnchanged DEF AcceptSub, BusyWork
  <2>3. NextId \in Nat /\ [id |-> NextId, cli |-> a] \in Entry
    BY <1>1 DEF TypeOK, NextId, Entry
  <2>4. TypeOK'
    BY <1>1, <1>6, <2>1, <2>3 DEF AcceptSub, TypeOK, MemType
  <2> QED BY <2>1, <2>2, <2>4 DEF IInv
<1>7. ASSUME NEW f \in Fds, ReadRequest(f) PROVE IInv'
  <2> DEFINE a == watch[f].arg
             c == Answer(request[f].op, cli[a].reply)
  <2>1. a \in Addrs /\ request[f] \in Request
    BY <1>1, <1>7, RequestAssumption DEF ReadRequest, TypeOK, Watch
  <2>2. request[f].op \in Ops /\ request[f].topics \in SUBSET Topics
    BY <2>1 DEF Request
  <2>3. cli[a].reply \in Replies
    BY <1>1, <2>1 DEF TypeOK, SubClient
  <2>4. c \in Replies /\ (c.write <=> c.wbuf # <<>>)
    BY <2>2, <2>3, AnswerReplied DEF Replied
  <2>5. MemType' /\ MemInv' /\ up' \in BOOLEAN
    <3>1. (Reply(a, c) /\ UNCHANGED up) \/ Dangling(a)
      BY <1>7 DEF ReadRequest
    <3>2. conn' = conn
      BY <1>7 DEF ReadRequest
    <3> HIDE DEF c, a
    <3>3. CASE Reply(a, c) /\ UNCHANGED up
      BY <1>1, <2>1, <2>4, <3>2, <3>3, ReplyKeeps DEF TypeOK
    <3>4. CASE Dangling(a)
      BY <1>1, <2>1, <3>2, <3>4, DanglingKeeps
    <3> QED BY <3>1, <3>3, <3>4
  <2>6. \/ UNCHANGED <<sub_trie, subscibe_table, acked>>
        \/ /\ SubscribeChannels(a, request[f].topics)
           /\ acked' = [acked EXCEPT ![cli[a].fd] = @ \cup request[f].topics]
    BY <1>7 DEF ReadRequest
  <2>7. /\ RegistryAgrees'
        /\ sub_trie' \subseteq Topics
        /\ subscibe_table' \in [Topics -> SUBSET Entry]
        /\ acked' \in [Fds -> SUBSET Topics]
    <3>1. CASE UNCHANGED <<sub_trie, subscibe_table, acked>>
      BY <1>1, <3>1, RegistryUnchanged DEF TypeOK
    <3>2. CASE /\ SubscribeChannels(a, request[f].topics)
               /\ acked' = [acked EXCEPT ![cli[a].fd] = @ \cup request[f].topics]
      <4>1. acked' \in [Fds -> SUBSET Topics]
        BY <1>1, <2>2, <3>2 DEF TypeOK
      <4> QED BY <1>1, <2>1, <2>2, <3>2, <4>1, SubscribeKeeps
    <3> QED BY <2>6, <3>1, <3>2
  <2>8. TypeOK'
    BY <1>1, <1>7, <2>5, <2>7 DEF ReadRequest, TypeOK, MemType
  <2>9. BusyWork'
    BY <1>1, <1>7 DEF ReadRequest, BusyWork
  <2> QED BY <2>5, <2>7, <2>8, <2>9 DEF IInv
<1>8. ASSUME NEW f \in Fds, ReadEof(f) PROVE IInv'
  <2>1. watch[f].arg \in Addrs /\ conn' = conn
    BY <1>1, <1>8 DEF ReadEof, TypeOK, Watch
  <2>2. MemType' /\ MemInv' /\ up' \in BOOLEAN
    <3>1. CASE Release(watch[f].arg) /\ UNCHANGED up
      BY <1>1, <2>1, <3>1, ReleaseKeeps DEF TypeOK
    <3>2. CASE Dangling(watch[f].arg)
      BY <1>1, <2>1, <3>2, DanglingKeeps
    <3> QED BY <1>8, <3>1, <3>2 DEF ReadEof
  <2>3. RegistryAgrees' /\ BusyWork'
    BY <1>1, <1>8, RegistryUnchanged DEF ReadEof, BusyWork
  <2>4. TypeOK'
    BY <1>1, <1>8, <2>2 DEF ReadEof, TypeOK, MemType
  <2> QED BY <2>2, <2>3, <2>4 DEF IInv
<1>9. ASSUME NEW f \in Fds, SendReply(f) PROVE IInv'
  <2>1. watch[f].arg \in Addrs /\ conn' = conn
    BY <1>1, <1>9 DEF SendReply, WriteReady, MemInv, WatchArg, TypeOK, Watch
  <2>2. MemType' /\ MemInv' /\ up' \in BOOLEAN
    <3>1. CASE Reply(watch[f].arg, NoReply) /\ UNCHANGED up
      BY <1>1, <2>1, <3>1, NoReplyType, ReplyKeeps DEF TypeOK
    <3>2. CASE Dangling(watch[f].arg)
      BY <1>1, <2>1, <3>2, DanglingKeeps
    <3> QED BY <1>9, <3>1, <3>2 DEF SendReply
  <2>3. RegistryAgrees' /\ BusyWork'
    BY <1>1, <1>9, RegistryUnchanged DEF SendReply, BusyWork
  <2>4. TypeOK'
    BY <1>1, <1>9, <2>2 DEF SendReply, TypeOK, MemType
  <2> QED BY <2>2, <2>3, <2>4 DEF IInv
<1>10. ASSUME NEW f \in Fds, SendFails(f) PROVE IInv'
  <2>1. watch[f].arg \in Addrs /\ conn' = conn
    BY <1>1, <1>10 DEF SendFails, WriteReady, MemInv, WatchArg, TypeOK, Watch
  <2>2. MemType' /\ MemInv'
    BY <1>1, <1>10, <2>1, ReleaseKeeps DEF SendFails
  <2>3. RegistryAgrees' /\ BusyWork'
    BY <1>1, <1>10, RegistryUnchanged DEF SendFails, BusyWork
  <2>4. TypeOK'
    BY <1>1, <1>10, <2>2 DEF SendFails, TypeOK, MemType
  <2> QED BY <2>2, <2>3, <2>4 DEF IInv
<1>11. ASSUME NEW f \in Fds, SendNothing(f) PROVE IInv'
  <2> DEFINE a == watch[f].arg
  <2>1. a \in Addrs /\ conn' = conn /\ cli[a].reply.wbuf = <<>>
    BY <1>1, <1>11 DEF SendNothing, WriteReady, MemInv, WatchArg, TypeOK, Watch
  <2>2. MemType' /\ MemInv' /\ up' \in BOOLEAN
    <3>1. \/ UNCHANGED <<memory, up>>
          \/ Release(a) /\ UNCHANGED up
          \/ /\ watch' = [watch EXCEPT ![cli[a].fd] = [arg |-> a, write |-> FALSE]]
             /\ UNCHANGED <<cli, live, up>>
          \/ Dangling(a)
      BY <1>11 DEF SendNothing
    <3> HIDE DEF a
    <3>2. CASE UNCHANGED <<memory, up>>
      BY <1>1, <2>1, <3>2, MemUnchanged DEF TypeOK
    <3>3. CASE Release(a) /\ UNCHANGED up
      BY <1>1, <2>1, <3>3, ReleaseKeeps DEF TypeOK
    <3>4. CASE /\ watch' = [watch EXCEPT ![cli[a].fd] = [arg |-> a, write |-> FALSE]]
               /\ UNCHANGED <<cli, live, up>>
      BY <1>1, <2>1, <3>4, RegisterKeeps DEF TypeOK
    <3>5. CASE Dangling(a)
      BY <1>1, <2>1, <3>5, DanglingKeeps
    <3> QED BY <3>1, <3>2, <3>3, <3>4, <3>5
  <2>3. RegistryAgrees' /\ BusyWork'
    BY <1>1, <1>11, RegistryUnchanged DEF SendNothing, BusyWork
  <2>4. TypeOK'
    BY <1>1, <1>11, <2>2 DEF SendNothing, TypeOK, MemType
  <2> QED BY <2>2, <2>3, <2>4 DEF IInv
<1>12. ASSUME NEW f \in Fds, ReadMessage(f) PROVE IInv'
  <2>1. MemType' /\ MemInv'
    BY <1>1, <1>12, MemUnchanged DEF ReadMessage
  <2>2. RegistryAgrees' /\ BusyWork'
    BY <1>1, <1>12, RegistryUnchanged DEF ReadMessage, BusyWork, NoWork
  <2>3. work' \in Work
    BY <1>1, <1>12 DEF ReadMessage, TypeOK, NoWork, Work
  <2>4. TypeOK'
    BY <1>1, <1>12, <2>1, <2>3 DEF ReadMessage, TypeOK, MemType
  <2> QED BY <2>1, <2>2, <2>4 DEF IInv
<1>13. ASSUME NEW f \in Fds, PubEof(f) PROVE IInv'
  <2>1. MemType' /\ MemInv'
    BY <1>1, <1>13, MemUnchanged DEF PubEof
  <2>2. RegistryAgrees' /\ BusyWork'
    BY <1>1, <1>13, RegistryUnchanged DEF PubEof, BusyWork
  <2>3. TypeOK'
    BY <1>1, <1>13, <2>1 DEF PubEof, TypeOK, MemType
  <2> QED BY <2>1, <2>2, <2>3 DEF IInv
<1>14. CASE NextTopic
  <2> DEFINE t == PrefixesOf[work.msg][work.next]
  <2>hit. PICK hit \in Walked(t) :
          work' = [work EXCEPT !.next = @ + 1,
                     !.clients = IF hit THEN subscibe_table[t] ELSE {}]
    BY <1>14 DEF NextTopic
  <2> DEFINE found == IF hit THEN subscibe_table[t] ELSE {}
  <2>1. MemType' /\ MemInv'
    BY <1>1, <1>14, MemUnchanged DEF NextTopic
  <2>2. RegistryAgrees' /\ BusyWork'
    BY <1>1, <1>14, RegistryUnchanged DEF NextTopic, BusyWork
  <2>topic. t \in Topics
    <3>1. work.msg \in Msgs /\ work.next \in 1..Len(PrefixesOf[work.msg])
      BY <1>1, <1>14 DEF NextTopic, TypeOK, Work
    <3> QED BY <3>1, PrefixAssumption
  <2>3. found \in SUBSET Entry
    BY <1>1, <2>topic DEF TypeOK
  <2>4. work' = [work EXCEPT !.next = @ + 1, !.clients = found]
    BY <2>hit
  <2>5. work' \in Work
    <3> DEFINE n == work.next + 1
    <3>1. work \in Work /\ n \in Nat \ {0}
      BY <1>1 DEF TypeOK, Work
    <3>2. work' = [work EXCEPT !.next = n, !.clients = found]
      BY <2>4
    <3> HIDE DEF found, n
    <3> QED BY <2>3, <3>1, <3>2 DEF Work
  <2>6. TypeOK'
    BY <1>1, <1>14, <2>1, <2>5 DEF NextTopic, TypeOK, MemType
  <2> QED BY <2>1, <2>2, <2>6 DEF IInv
<1>15. ASSUME NEW e \in work.clients, PublishTo(e) PROVE IInv'
  <2> DEFINE a == e.cli
             c == AddReplyBulk(cli[a].reply, work.msg)
  <2>1. e \in Entry /\ a \in Addrs /\ work.msg \in Msgs
    BY <1>1 DEF TypeOK, Work, Entry, BusyWork
  <2>2. cli[a].reply \in Replies /\ conn' = conn
    BY <1>1, <1>15, <2>1 DEF TypeOK, SubClient, PublishTo
  <2>3. c \in Replies /\ (c.write <=> c.wbuf # <<>>)
    BY <2>1, <2>2, BulkReplied DEF Replied
  <2>4. MemType' /\ MemInv' /\ up' \in BOOLEAN
    <3> HIDE DEF a, c
    <3>1. CASE Reply(a, c) /\ UNCHANGED up
      BY <1>1, <2>1, <2>2, <2>3, <3>1, ReplyKeeps DEF TypeOK
    <3>2. CASE Dangling(a)
      BY <1>1, <2>1, <2>2, <3>2, DanglingKeeps
    <3> QED BY <1>15, <3>1, <3>2 DEF PublishTo, a, c
  <2>5. RegistryAgrees'
    BY <1>1, <1>15, RegistryUnchanged DEF PublishTo
  <2>6. work' \in Work /\ BusyWork'
    BY <1>1, <1>15 DEF PublishTo, TypeOK, Work, BusyWork
  <2>7. TypeOK'
    BY <1>1, <1>15, <2>4, <2>6 DEF PublishTo, TypeOK, MemType
  <2> QED BY <2>4, <2>5, <2>6, <2>7 DEF IInv
<1>16. CASE PublishDone
  <2>1. MemType' /\ MemInv'
    BY <1>1, <1>16, MemUnchanged DEF PublishDone
  <2>2. RegistryAgrees' /\ BusyWork'
    BY <1>1, <1>16, RegistryUnchanged DEF PublishDone, BusyWork, NoWork
  <2>3. NoWork \in Work
    BY DEF NoWork, Work
  <2>4. TypeOK'
    BY <1>1, <1>16, <2>1, <2>3 DEF PublishDone, TypeOK, MemType
  <2> QED BY <2>1, <2>2, <2>4 DEF IInv
<1>17. CASE UNCHANGED vars
  <2>1. MemType' /\ MemInv'
    BY <1>1, <1>17, MemUnchanged DEF vars
  <2>2. RegistryAgrees' /\ BusyWork'
    BY <1>1, <1>17, RegistryUnchanged DEF vars, BusyWork
  <2>3. TypeOK'
    BY <1>1, <1>17, <2>1 DEF vars, TypeOK, MemType
  <2> QED BY <2>1, <2>2, <2>3 DEF IInv
<1> QED
  BY <1>2, <1>3, <1>4, <1>5, <1>6, <1>7, <1>8, <1>9, <1>10, <1>12, <1>13, <1>14,
     <1>15, <1>16, <1>17, <1>11
  DEF Next, PeerNext, HandlerNext, PublishNext

-----------------------------------------------------------------------------
(***************************************************************************)
(* What the broker knows of its clients.  RegistryHonest needs that ids    *)
(* are counted, so that an entry whose client has gone is not taken for    *)
(* the next client at its address.  SafeUntilDeparture needs to know more  *)
(* than it says of a quiet broker, one in which no publish has met a       *)
(* released client: every event there is leads to a living client, whose   *)
(* descriptor is the event's own.                                          *)
(***************************************************************************)
IdsCounted ==
  /\ \A a \in Addrs : cli[a].id <= sub_inc_counter
  /\ \A t \in Topics : \A e \in subscibe_table[t] : e.id <= sub_inc_counter

WorkEntries == work.clients \subseteq Entries

Departed == touched => \E e \in Entries : ~Current(e)

Quiet ==
  ~touched =>
    /\ up
    /\ \A f \in Fds :
         /\ watch[f].arg # NoAddr => Served(f)
         /\ conn[f] = "sub" /\ peer[f] = "open" => watch[f].arg # NoAddr

HInv == IdsCounted /\ RegistryHonest /\ WorkEntries /\ Departed /\ Quiet

(* No struct is given to another client. *)
SameClients ==
  /\ live' \subseteq live
  /\ \A a \in Addrs : cli'[a].fd = cli[a].fd /\ cli'[a].id = cli[a].id

LEMMA ReplySame ==
  ASSUME MemType, NEW a \in Addrs, NEW c, Reply(a, c)
  PROVE  SameClients
  BY DEF Reply, SameClients, MemType, SubClient

LEMMA ReleaseSame ==
  ASSUME NEW a, Release(a)
  PROVE  SameClients
  BY DEF Release, SameClients

LEMMA MemorySame ==
  ASSUME UNCHANGED memory
  PROVE  SameClients
  BY DEF memory, SameClients

LEMMA DanglingSame ==
  ASSUME NEW a, Dangling(a)
  PROVE  SameClients /\ a \notin live
  BY MemorySame DEF Dangling, Crash

(* A step that makes no client and no entry takes nothing from what is     *)
(* known of either.                                                        *)
LEMMA EntriesKept ==
  ASSUME TypeOK, IdsCounted, RegistryHonest, LiveFd, SameClients,
         UNCHANGED <<sub_inc_counter, subscibe_table>>,
         \A f \in Fds : acked[f] \subseteq acked'[f]
  PROVE  /\ IdsCounted' /\ RegistryHonest' /\ Entries' = Entries
         /\ \A e \in Entries : ~Current(e) => ~Current(e)'
<1>1. Entries' = Entries
  BY DEF Entries
<1>2. IdsCounted'
  BY DEF IdsCounted, SameClients
<1>3. \A e \in Entry : Current(e)' => Current(e)
  BY DEF Current, SameClients, Entry
<1>4. \A t \in Topics : subscibe_table[t] \subseteq Entry
  BY DEF TypeOK
<1>5. RegistryHonest'
  <2> SUFFICES ASSUME NEW t \in Topics, NEW e \in subscibe_table[t], Current(e)'
               PROVE  t \in acked'[cli'[e.cli].fd]
    BY DEF RegistryHonest
  <2>1. e \in Entry /\ Current(e)
    BY <1>3, <1>4
  <2>2. e.cli \in Addrs /\ cli[e.cli].fd \in Fds
    BY <2>1 DEF Entry, Current, LiveFd
  <2>3. t \in acked[cli[e.cli].fd]
    BY <2>1 DEF RegistryHonest
  <2> QED BY <2>2, <2>3 DEF SameClients
<1>6. Entries \subseteq Entry
  BY <1>4 DEF Entries
<1> QED BY <1>1, <1>2, <1>3, <1>5, <1>6

(* The new entries of a subscribe lead to its client, which is told so. *)
LEMMA SubscribeHonest ==
  ASSUME TypeOK, RegistryAgrees, IdsCounted, RegistryHonest, LiveFd, SameClients,
         NEW a \in Addrs, NEW T \in SUBSET Topics, SubscribeChannels(a, T),
         UNCHANGED sub_inc_counter,
         acked' = [acked EXCEPT ![cli[a].fd] = @ \cup T]
  PROVE  /\ IdsCounted' /\ RegistryHonest' /\ Entries \subseteq Entries'
         /\ \A e \in Entries : ~Current(e) => ~Current(e)'
<1> DEFINE n == [id |-> cli[a].id, cli |-> a]
<1>1. PICK new \in SUBSET (T \cap Storable) :
        /\ \A t \in new : KeyOf[t] \notin sub_trie
        /\ \A t, u \in new : KeyOf[t] = KeyOf[u] => t = u
        /\ sub_trie' = sub_trie \cup {KeyOf[t] : t \in new}
        /\ subscibe_table' =
             [t \in Topics |-> IF t \in new THEN {n} ELSE subscibe_table[t]]
  BY DEF SubscribeChannels, NewSets
<1>2. \A t \in Topics : subscibe_table[t] \subseteq Entry
  BY DEF TypeOK
<1>3. \A e \in Entry : Current(e)' => Current(e)
  BY DEF Current, SameClients, Entry
<1>4. \A f \in Fds : acked[f] \subseteq acked'[f]
  BY DEF TypeOK
<1>5. \A t \in new : subscibe_table[t] = {}
  BY <1>1 DEF RegistryAgrees, InUse
<1>6. \A t \in Topics : subscibe_table[t] \subseteq subscibe_table'[t]
  BY <1>1, <1>5
<1>7. Entries \subseteq Entries'
  BY <1>6 DEF Entries
<1>8. \A e \in Entries : ~Current(e) => ~Current(e)'
  BY <1>2, <1>3 DEF Entries
<1>9. IdsCounted'
  BY <1>1 DEF IdsCounted, SameClients
<1>10. RegistryHonest'
  <2> SUFFICES ASSUME NEW t \in Topics, NEW e \in subscibe_table'[t], Current(e)'
               PROVE  t \in acked'[cli'[e.cli].fd]
    BY DEF RegistryHonest
  <2>1. CASE t \in new
    <3>1. e.cli = a /\ t \in T
      BY <1>1, <2>1
    <3>2. cli'[a].fd = cli[a].fd /\ cli[a].fd \in Fds
      BY <3>1 DEF SameClients, Current, LiveFd
    <3> QED BY <3>1, <3>2 DEF TypeOK
  <2>2. CASE t \notin new
    <3>1. e \in Entry /\ e \in subscibe_table[t] /\ Current(e)
      BY <1>1, <1>2, <1>3, <2>2
    <3>2. cli[e.cli].fd \in Fds /\ cli'[e.cli].fd = cli[e.cli].fd
      BY <3>1 DEF Current, LiveFd, Entry, SameClients
    <3>3. t \in acked[cli[e.cli].fd]
      BY <3>1 DEF RegistryHonest
    <3> QED BY <1>4, <3>2, <3>3
  <2> QED BY <2>1, <2>2
<1> QED BY <1>7, <1>8, <1>9, <1>10

(* A new client is in no entry, whatever its address was before. *)
LEMMA AcceptHonest ==
  ASSUME TypeOK, MemInv, IdsCounted, RegistryHonest,
         NEW f \in Fds, NEW a \in Addrs, AcceptSub(f, a)
  PROVE  /\ IdsCounted' /\ RegistryHonest' /\ Entries' = Entries
         /\ \A e \in Entries : ~Current(e) => ~Current(e)'
<1>1. /\ cli' = [cli EXCEPT ![a] = [fd |-> f, id |-> NextId, reply |-> NoReply]]
      /\ a \notin live /\ live' = live \cup {a}
      /\ subscibe_table' = subscibe_table /\ acked' = acked
      /\ sub_inc_counter' = NextId /\ NextId = sub_inc_counter + 1
      /\ sub_inc_counter \in Nat
  BY DEF AcceptSub, NextId, TypeOK
<1>2. \A b \in Addrs : cli[b].id \in Nat
  BY DEF TypeOK, SubClient
<1>3. \A t \in Topics : \A e \in subscibe_table[t] :
        e \in Entry /\ e.id \in Nat /\ e.id <= sub_inc_counter
  BY DEF TypeOK, Entry, IdsCounted
<1>4. cli'[a].id = NextId /\ \A b \in Addrs \ {a} : cli'[b] = cli[b]
  BY <1>1 DEF TypeOK
<1>5. Entries' = Entries
  BY <1>1 DEF Entries
<1>6. IdsCounted'
  BY <1>1, <1>2, <1>3, <1>4 DEF IdsCounted
<1>7. \A e \in Entries : Current(e)' => Current(e) /\ e.cli # a
  <2> SUFFICES ASSUME NEW e \in Entries, Current(e)'
               PROVE  Current(e) /\ e.cli # a
    OBVIOUS
  <2>1. e \in Entry /\ e.cli \in Addrs /\ e.id \in Nat /\ e.id <= sub_inc_counter
    BY <1>3 DEF Entries, Entry
  <2>2. e.cli # a
    BY <1>1, <1>4, <2>1 DEF Current
  <2> QED BY <1>1, <1>4, <2>1, <2>2 DEF Current
<1>8. RegistryHonest'
  <2> SUFFICES ASSUME NEW t \in Topics, NEW e \in subscibe_table[t], Current(e)'
               PROVE  t \in acked[cli'[e.cli].fd]
    BY <1>1 DEF RegistryHonest
  <2>1. e \in Entries /\ e.cli \in Addrs
    BY <1>3 DEF Entries, Entry
  <2>2. Current(e) /\ cli'[e.cli] = cli[e.cli]
    BY <1>4, <1>7, <2>1
  <2> QED BY <2>2 DEF RegistryHonest
<1> QED BY <1>5, <1>6, <1>7, <1>8

(* Departed, once the entries are settled. *)
LEMMA DepartedKept ==
  ASSUME Departed, touched' = touched, Entries \subseteq Entries',
         \A e \in Entries : ~Current(e) => ~Current(e)'
  PROVE  Departed'
<1> SUFFICES ASSUME touched PROVE \E e \in Entries' : ~Current(e)'
  BY DEF Departed
<1>1. PICK e \in Entries : ~Current(e)
  BY DEF Departed
<1> QED BY <1>1

-----------------------------------------------------------------------------
(* The quiet broker. *)

(* Its events are its clients' own, and say what the client waits for.     *)
LEMMA QuietEvent ==
  ASSUME TypeOK, MemInv, Quiet, ~touched, NEW f \in Fds, watch[f].arg # NoAddr
  PROVE  /\ watch[f].arg \in live /\ cli[watch[f].arg].fd = f
         /\ watch[f].write => cli[watch[f].arg].reply.wbuf # <<>>
<1> DEFINE a == watch[f].arg
<1>1. a \in live /\ cli[a].fd = f
  BY DEF Quiet, Served
<1>2. /\ watch[cli[a].fd] = [arg |-> a, write |-> cli[a].reply.write]
      /\ cli[a].reply.write <=> cli[a].reply.wbuf # <<>>
  BY <1>1 DEF MemInv, WatchedForReplies
<1>3. watch[f] = [arg |-> a, write |-> cli[a].reply.write]
  BY <1>1, <1>2
<1> HIDE DEF a
<1>4. watch[f].write = cli[a].reply.write
  BY <1>3
<1> QED BY <1>1, <1>2, <1>4 DEF a

LEMMA QuietSame ==
  ASSUME Quiet, UNCHANGED <<cli, live, watch, up, touched>>,
         \A f \in Fds : /\ conn'[f] = "sub" => conn[f] = "sub"
                        /\ peer'[f] = "open" => peer[f] = "open"
  PROVE  Quiet'
  BY DEF Quiet, Served

LEMMA QuietReply ==
  ASSUME MemType, MemInv, Quiet, NEW a \in live, NEW c, Reply(a, c),
         UNCHANGED <<conn, peer, up, touched>>
  PROVE  Quiet'
<1> SUFFICES ASSUME ~touched PROVE Quiet'
  BY DEF Quiet
<1>1. a \in Addrs /\ cli[a].fd \in Fds /\ a # NoAddr
  BY NoneAssumption DEF MemType, MemInv, LiveFd
<1>2. live' = live /\ \A b \in Addrs : cli'[b].fd = cli[b].fd
  BY <1>1 DEF Reply, MemType, SubClient
<1>3. watch'[cli[a].fd].arg = a \/ watch' = watch
  BY <1>1 DEF Reply, MemType
<1>4. \A f \in Fds : f # cli[a].fd => watch'[f] = watch[f]
  BY <1>1 DEF Reply, MemType
<1>5. ASSUME NEW f \in Fds
      PROVE  /\ watch'[f].arg # NoAddr => Served(f)'
             /\ conn[f] = "sub" /\ peer[f] = "open" => watch'[f].arg # NoAddr
  <2>1. CASE watch'[f] = watch[f]
    BY <1>2, <2>1 DEF Quiet, Served, MemType
  <2>2. CASE f = cli[a].fd /\ watch'[f].arg = a
    BY <1>1, <1>2, <2>2 DEF Served
  <2> QED BY <1>3, <1>4, <2>1, <2>2
<1> QED BY <1>5 DEF Quiet

LEMMA QuietRelease ==
  ASSUME TypeOK, MemInv, Quiet, NEW f \in Fds, watch[f].arg # NoAddr,
         Release(watch[f].arg), peer'[f] = "closed",
         \A g \in Fds : peer'[g] = "open" => peer[g] = "open",
         UNCHANGED <<conn, up, touched>>
  PROVE  Quiet'
<1> SUFFICES ASSUME ~touched PROVE Quiet'
  BY DEF Quiet
<1> DEFINE a == watch[f].arg
<1>1. a \in live /\ cli[a].fd = f
  BY QuietEvent
<1>2. /\ cli' = cli /\ live' = live \ {a}
      /\ watch' = [watch EXCEPT ![f] = NoWatch]
  BY <1>1 DEF Release
<1>3. watch'[f] = NoWatch /\ NoWatch.arg = NoAddr
  BY <1>2 DEF TypeOK, NoWatch
<1>4. ASSUME NEW g \in Fds, g # f
      PROVE  /\ watch'[g].arg # NoAddr => Served(g)'
             /\ conn'[g] = "sub" /\ peer'[g] = "open" => watch'[g].arg # NoAddr
  <2>1. watch'[g] = watch[g]
    BY <1>2, <1>4 DEF TypeOK
  <2>2. watch[g].arg # NoAddr => watch[g].arg \in live /\ cli[watch[g].arg].fd = g
    BY DEF Quiet, Served
  <2>3. watch[g].arg # NoAddr => watch[g].arg # a
    BY <1>1, <1>4, <2>2
  <2> QED BY <1>2, <2>1, <2>2, <2>3 DEF Quiet, Served
<1> QED BY <1>3, <1>4 DEF Quiet

LEMMA QuietAccept ==
  ASSUME TypeOK, MemInv, Quiet, NEW f \in Fds, NEW a \in Addrs, AcceptSub(f, a)
  PROVE  Quiet'
<1> SUFFICES ASSUME ~touched PROVE Quiet'
  BY DEF Quiet, AcceptSub
<1>1. /\ cli' = [cli EXCEPT ![a] = [fd |-> f, id |-> NextId, reply |-> NoReply]]
      /\ a \notin live /\ live' = live \cup {a} /\ a # NoAddr
      /\ watch' = [watch EXCEPT ![f] = [arg |-> a, write |-> FALSE]]
      /\ conn' = [conn EXCEPT ![f] = "sub"]
      /\ UNCHANGED <<peer, up, touched>>
  BY NoneAssumption DEF AcceptSub
<1>2. watch'[f].arg = a /\ Served(f)'
  BY <1>1 DEF Served, TypeOK
<1>3. ASSUME NEW g \in Fds, g # f
      PROVE  /\ watch'[g].arg # NoAddr => Served(g)'
             /\ conn'[g] = "sub" /\ peer'[g] = "open" => watch'[g].arg # NoAddr
  <2>1. watch'[g] = watch[g] /\ conn'[g] = conn[g]
    BY <1>1, <1>3 DEF TypeOK
  <2>2. watch[g].arg # NoAddr =>
          watch[g].arg \in live \ {a} /\ cli[watch[g].arg].fd = g
    BY <1>1 DEF Quiet, Served
  <2> QED BY <1>1, <2>1, <2>2 DEF Quiet, Served, TypeOK
<1> QED BY <1>1, <1>2, <1>3 DEF Quiet

-----------------------------------------------------------------------------
LEMMA InitHInv == Init => HInv
<1> SUFFICES ASSUME Init PROVE HInv
  OBVIOUS
<1>1. \A a \in Addrs : cli[a].id = 0
  BY DEF Init
<1>2. IdsCounted /\ RegistryHonest /\ Departed
  BY <1>1 DEF Init, IdsCounted, RegistryHonest, Departed
<1>3. WorkEntries
  BY DEF Init, WorkEntries, NoWork
<1>4. Quiet
  BY DEF Init, Quiet, NoWatch
<1> QED BY <1>2, <1>3, <1>4 DEF HInv

LEMMA NextHInv == IInv /\ HInv /\ [Next]_vars => HInv'
<1> SUFFICES ASSUME IInv, HInv, [Next]_vars PROVE HInv'
  OBVIOUS
<1> USE DEF sockets, registry
<1>1. /\ TypeOK /\ MemType /\ MemInv /\ LiveFd /\ RegistryAgrees /\ BusyWork
      /\ IdsCounted /\ RegistryHonest /\ WorkEntries /\ Departed /\ Quiet
  BY DEF IInv, HInv, TypeOK, MemType, MemInv
(* Most steps change no entry and leave the publish alone.                 *)
<1>2. ASSUME SameClients, UNCHANGED <<sub_inc_counter, subscibe_table, work, touched>>,
             \A f \in Fds : acked[f] \subseteq acked'[f], Quiet'
      PROVE  HInv'
  <2>1. /\ IdsCounted' /\ RegistryHonest' /\ Entries' = Entries
        /\ \A e \in Entries : ~Current(e) => ~Current(e)'
    BY <1>1, <1>2, EntriesKept
  <2>2. Departed'
    BY <1>1, <1>2, <2>1, DepartedKept
  <2>3. WorkEntries'
    BY <1>1, <1>2, <2>1 DEF WorkEntries
  <2> QED BY <1>2, <2>1, <2>2, <2>3 DEF HInv
<1>3. ASSUME UNCHANGED <<memory, sub_inc_counter, subscibe_table, work, up, acked, touched>>,
             \A f \in Fds : /\ conn'[f] = "sub" => conn[f] = "sub"
                            /\ peer'[f] = "open" => peer[f] = "open"
      PROVE  HInv'
  <2>1. SameClients
    BY <1>3, MemorySame
  <2>2. Quiet'
    BY <1>1, <1>3, QuietSame DEF memory
  <2> QED BY <1>2, <1>3, <2>1, <2>2
<1>4. ASSUME NEW f \in Fds, NEW r \in Requests, SendRequest(f, r) PROVE HInv'
  BY <1>3, <1>4 DEF SendRequest
<1>5. ASSUME NEW f \in Fds, NEW m \in Msgs, SendMessage(f, m) PROVE HInv'
  BY <1>3, <1>5 DEF SendMessage
<1>6. ASSUME NEW f \in Fds, ClosePeer(f) PROVE HInv'
  BY <1>1, <1>3, <1>6 DEF ClosePeer, TypeOK
<1>7. ASSUME NEW f \in Fds, AcceptPub(f) PROVE HInv'
  <2>1. \A g \in Fds : conn'[g] = "sub" => conn[g] = "sub"
    BY <1>1, <1>7 DEF AcceptPub, TypeOK
  <2> QED BY <1>3, <1>7, <2>1 DEF AcceptPub
<1>8. ASSUME NEW f \in Fds, NEW a \in Addrs, AcceptSub(f, a) PROVE HInv'
  <2>1. /\ IdsCounted' /\ RegistryHonest' /\ Entries' = Entries
        /\ \A e \in Entries : ~Current(e) => ~Current(e)'
    BY <1>1, <1>8, AcceptHonest
  <2>2. Quiet'
    BY <1>1, <1>8, QuietAccept
  <2>3. work' = work /\ touched' = touched
    BY <1>8 DEF AcceptSub
  <2>4. Departed'
    BY <1>1, <2>1, <2>3, DepartedKept
  <2>5. WorkEntries'
    BY <1>1, <2>1, <2>3 DEF WorkEntries
  <2> QED BY <2>1, <2>2, <2>4, <2>5 DEF HInv
<1>9. ASSUME NEW f \in Fds, ReadRequest(f) PROVE HInv'
  <2> DEFINE a == watch[f].arg
             c == Answer(request[f].op, cli[a].reply)
  <2>1. a \in Addrs /\ a # NoAddr /\ request[f] \in Request
    BY <1>1, <1>9, RequestAssumption DEF ReadRequest, TypeOK, Watch
  <2>2. request[f].topics \in SUBSET Topics
    BY <2>1 DEF Request
  <2>3. UNCHANGED <<conn, peer, sub_inc_counter, work, touched>>
    BY <1>9 DEF ReadRequest
  <2>4. (Reply(a, c) /\ UNCHANGED up) \/ Dangling(a)
    BY <1>9 DEF ReadRequest
  <2>5. ~touched => a \in live
    BY <1>1, <2>1, QuietEvent
  <2>6. SameClients
    <3> HIDE DEF a, c
    <3> QED BY <1>1, <2>1, <2>4, ReplySame, DanglingSame
  <2>7. Quiet'
    <3> HIDE DEF a, c
    <3>1. CASE touched
      BY <2>3, <3>1 DEF Quiet
    <3>2. CASE ~touched
      <4>1. Reply(a, c) /\ UNCHANGED up
        BY <2>4, <2>5, <3>2, DanglingSame
      <4> QED BY <1>1, <2>3, <2>5, <3>2, <4>1, QuietReply
    <3> QED BY <3>1, <3>2
  <2>8. CASE UNCHANGED <<sub_trie, subscibe_table, acked>>
    BY <1>2, <2>3, <2>6, <2>7, <2>8
  <2>9. CASE /\ SubscribeChannels(a, request[f].topics)
             /\ acked' = [acked EXCEPT ![cli[a].fd] = @ \cup request[f].topics]
    <3>1. /\ IdsCounted' /\ RegistryHonest' /\ Entries \subseteq Entries'
          /\ \A e \in Entries : ~Current(e) => ~Current(e)'
      <4> HIDE DEF a
      <4> QED BY <1>1, <2>1, <2>2, <2>3, <2>6, <2>9, SubscribeHonest
    <3>2. Departed'
      BY <1>1, <2>3, <3>1, DepartedKept
    <3>3. WorkEntries'
      BY <1>1, <2>3, <3>1 DEF WorkEntries
    <3> QED BY <2>7, <3>1, <3>2, <3>3 DEF HInv
  <2> QED BY <1>9, <2>8, <2>9 DEF ReadRequest
(* A handler on f's event releases the event's client, or answers it.      *)
<1>10. ASSUME NEW f \in Fds, watch[f].arg # NoAddr,
              \/ Release(watch[f].arg) /\ UNCHANGED up
              \/ Dangling(watch[f].arg),
              peer'[f] = "closed", \A g \in Fds : peer'[g] = "open" => peer[g] = "open",
              UNCHANGED <<conn, registry, work, acked, touched>>
       PROVE  HInv'
  <2>1. SameClients
    BY <1>10, ReleaseSame, DanglingSame
  <2>2. Quiet'
    <3>1. CASE touched
      BY <1>10, <3>1 DEF Quiet
    <3>2. CASE ~touched
      <4>1. Release(watch[f].arg) /\ UNCHANGED up
        BY <1>1, <1>10, <3>2, QuietEvent, DanglingSame
      <4> QED BY <1>1, <1>10, <4>1, QuietRelease
    <3> QED BY <3>1, <3>2
  <2> QED BY <1>2, <1>10, <2>1, <2>2
<1>11. ASSUME NEW f \in Fds, ReadEof(f) PROVE HInv'
  BY <1>10, <1>11 DEF ReadEof
<1>12. ASSUME NEW f \in Fds, SendReply(f) PROVE HInv'
  <2> DEFINE a == watch[f].arg
  <2>1. /\ a \in Addrs /\ a # NoAddr
        /\ (Reply(a, NoReply) /\ UNCHANGED up) \/ Dangling(a)
        /\ UNCHANGED <<conn, peer, sub_inc_counter, subscibe_table, work, acked, touched>>
    BY <1>1, <1>12 DEF SendReply, WriteReady, MemInv, WatchArg, TypeOK, Watch
  <2>2. SameClients
    <3> HIDE DEF a
    <3> QED BY <1>1, <2>1, ReplySame, DanglingSame
  <2>3. Quiet'
    <3>1. CASE touched
      BY <2>1, <3>1 DEF Quiet
    <3>2. CASE ~touched
      <4>1. a \in live
        BY <1>1, <2>1, <3>2, QuietEvent
      <4> HIDE DEF a
      <4>2. Reply(a, NoReply) /\ UNCHANGED up
        BY <2>1, <4>1, DanglingSame
      <4> QED BY <1>1, <2>1, <4>1, <4>2, QuietReply
    <3> QED BY <3>1, <3>2
  <2> QED BY <1>2, <2>1, <2>2, <2>3
<1>13. ASSUME NEW f \in Fds, SendFails(f) PROVE HInv'
  <2> DEFINE a == watch[f].arg
  <2>1. /\ a \in Addrs /\ a # NoAddr /\ Release(a)
        /\ peer' = [peer EXCEPT ![cli[a].fd] = "closed"]
        /\ UNCHANGED <<up, conn, registry, work, acked, touched>>
    BY <1>1, <1>13 DEF SendFails, WriteReady, MemInv, WatchArg, TypeOK, Watch
  <2>2. \A g \in Fds : peer'[g] = "open" => peer[g] = "open"
    BY <1>1, <2>1 DEF TypeOK
  <2>3. CASE touched
    <3>1. SameClients
      BY <2>1, ReleaseSame
    <3>2. Quiet'
      BY <2>1, <2>3 DEF Quiet
    <3> QED BY <1>2, <2>1, <3>1, <3>2
  <2>4. CASE ~touched
    <3>1. cli[a].fd = f
      BY <1>1, <2>1, <2>4, QuietEvent
    <3>2. peer'[f] = "closed"
      BY <1>1, <2>1, <3>1 DEF TypeOK
    <3> QED BY <1>10, <2>1, <2>2, <3>2
  <2> QED BY <2>3, <2>4
<1>14. ASSUME NEW f \in Fds, SendNothing(f) PROVE HInv'
  <2> DEFINE a == watch[f].arg
  <2>1. /\ a \in Addrs /\ a # NoAddr /\ watch[f].write /\ cli[a].reply.wbuf = <<>>
        /\ UNCHANGED <<sub_inc_counter, subscibe_table, work, acked, touched>>
    BY <1>1, <1>14 DEF SendNothing, WriteReady, MemInv, WatchArg, TypeOK, Watch
  <2>2. touched
    BY <1>1, <2>1, QuietEvent DEF TypeOK
  <2>3. SameClients
    <3>1. \/ UNCHANGED memory \/ Release(a) \/ UNCHANGED <<cli, live>> \/ Dangling(a)
      BY <1>14 DEF SendNothing
    <3> HIDE DEF a
    <3> QED BY <3>1, MemorySame, ReleaseSame, DanglingSame DEF SameClients
  <2>4. Quiet'
    BY <2>1, <2>2 DEF Quiet
  <2> QED BY <1>2, <2>1, <2>3, <2>4
(* The steps of a publish.                                                 *)
<1>15. ASSUME UNCHANGED <<conn, peer, memory, registry, up, acked, touched>>,
              work'.clients \subseteq Entries
       PROVE  HInv'
  <2>1. SameClients
    BY <1>15, MemorySame
  <2>2. /\ IdsCounted' /\ RegistryHonest' /\ Entries' = Entries
        /\ \A e \in Entries : ~Current(e) => ~Current(e)'
    BY <1>1, <1>15, <2>1, EntriesKept
  <2>3. Departed'
    BY <1>1, <1>15, <2>2, DepartedKept
  <2>4. Quiet'
    BY <1>1, <1>15, QuietSame DEF memory
  <2>5. WorkEntries'
    BY <1>15, <2>2 DEF WorkEntries
  <2> QED BY <2>2, <2>3, <2>4, <2>5 DEF HInv
<1>16. ASSUME NEW f \in Fds, ReadMessage(f) PROVE HInv'
  BY <1>15, <1>16 DEF ReadMessage, NoWork
<1>17. ASSUME NEW f \in Fds, PubEof(f) PROVE HInv'
  BY <1>3, <1>17 DEF PubEof
<1>18. CASE NextTopic
  <2> DEFINE t == PrefixesOf[work.msg][work.next]
  <2>hit. PICK hit \in Walked(t) :
          work' = [work EXCEPT !.next = @ + 1,
                     !.clients = IF hit THEN subscibe_table[t] ELSE {}]
    BY <1>18 DEF NextTopic
  <2> DEFINE found == IF hit THEN subscibe_table[t] ELSE {}
  <2>1. work' = [work EXCEPT !.next = @ + 1, !.clients = found]
    BY <2>hit
  <2>topic. t \in Topics
    <3>1. work.msg \in Msgs /\ work.next \in 1..Len(PrefixesOf[work.msg])
      BY <1>1, <1>18 DEF NextTopic, TypeOK, Work
    <3> QED BY <3>1, PrefixAssumption
  <2>2. found \subseteq Entries
    BY <1>1, <2>topic DEF TypeOK, Entries
  <2>3. work'.clients = found
    <3> HIDE DEF found
    <3> QED BY <1>1, <2>1 DEF TypeOK, Work
  <2> QED BY <1>15, <1>18, <2>2, <2>3 DEF NextTopic
<1>19. ASSUME NEW e \in work.clients, PublishTo(e) PROVE HInv'
  <2> DEFINE a == e.cli
             c == AddReplyBulk(cli[a].reply, work.msg)
  <2>1. e \in Entries /\ e \in Entry /\ a \in Addrs
    BY <1>1 DEF WorkEntries, TypeOK, Work, Entry
  <2>2. /\ work' = [work EXCEPT !.clients = @ \ {e}]
        /\ touched' = (touched \/ a \notin live)
        /\ (Reply(a, c) /\ UNCHANGED up) \/ Dangling(a)
        /\ UNCHANGED <<conn, peer, registry, acked>>
    BY <1>19 DEF PublishTo
  <2>3. SameClients
    <3> HIDE DEF a, c
    <3> QED BY <1>1, <2>1, <2>2, ReplySame, DanglingSame
  <2>4. /\ IdsCounted' /\ RegistryHonest' /\ Entries' = Entries
        /\ \A d \in Entries : ~Current(d) => ~Current(d)'
    BY <1>1, <2>2, <2>3, EntriesKept
  <2>5. WorkEntries'
    BY <1>1, <2>2, <2>4 DEF WorkEntries, TypeOK, Work
  <2>6. CASE a \in live
    <3>1. touched' = touched
      BY <1>1, <2>2, <2>6 DEF TypeOK
    <3>2. Departed'
      BY <1>1, <2>4, <3>1, DepartedKept
    <3>3. Reply(a, c) /\ UNCHANGED up
      <4> HIDE DEF a, c
      <4> QED BY <2>2, <2>6, DanglingSame
    <3>4. Quiet'
      <4> HIDE DEF a, c
      <4> QED BY <1>1, <2>2, <2>6, <3>1, <3>3, QuietReply
    <3> QED BY <2>4, <2>5, <3>2, <3>4 DEF HInv
  <2>7. CASE a \notin live
    <3>1. ~Current(e)'
      BY <2>1, <2>4, <2>7 DEF Current
    <3>2. Departed' /\ Quiet'
      BY <2>1, <2>2, <2>4, <2>7, <3>1 DEF Departed, Quiet
    <3> QED BY <2>4, <2>5, <3>2 DEF HInv
  <2> QED BY <2>6, <2>7
<1>20. CASE PublishDone
  BY <1>15, <1>20 DEF PublishDone, NoWork
<1>21. CASE UNCHANGED vars
  BY <1>3, <1>21 DEF vars
<1> QED
  BY <1>4, <1>5, <1>6, <1>7, <1>8, <1>9, <1>11, <1>12, <1>13, <1>14, <1>16, <1>17,
     <1>18, <1>19, <1>20, <1>21
  DEF Next, PeerNext, HandlerNext, PublishNext

-----------------------------------------------------------------------------
(***************************************************************************)
(* The type invariant of the broker, for any number of clients, topics and *)
(* messages.                                                               *)
(***************************************************************************)
THEOREM TypeCorrect == Spec => []TypeOK
<1>1. IInv => TypeOK
  BY DEF IInv
<1> QED BY InitIInv, NextIInv, <1>1, PTL DEF Spec

(***************************************************************************)
(* The trie and the hash table of topics stay in step, although they are   *)
(* updated by two calls and know a topic under two names, and every topic  *)
(* in use has exactly one entry.                                           *)
(***************************************************************************)
THEOREM RegistryInStep == Spec => []RegistryAgrees
<1>1. IInv => RegistryAgrees
  BY DEF IInv
<1> QED BY InitIInv, NextIInv, <1>1, PTL DEF Spec

(***************************************************************************)
(* Every live client's event is on its own descriptor and waits for        *)
(* EV_WRITE exactly while replies wait, whatever the writes through        *)
(* pointers to released clients do.                                        *)
(***************************************************************************)
THEOREM RepliesWatched == Spec => []WatchedForReplies
<1>1. IInv => WatchedForReplies
  BY DEF IInv, MemInv
<1> QED BY InitIInv, NextIInv, <1>1, PTL DEF Spec

(***************************************************************************)
(* A message published through an entry that still leads to the client it  *)
(* was made for reaches a client that was told "+subscribe" for the topic: *)
(* ids are never given out twice, so no client is taken for another.       *)
(***************************************************************************)
THEOREM EntriesHonest == Spec => []RegistryHonest
<1>1. HInv => RegistryHonest
  BY DEF HInv
<1> QED BY InitIInv, NextIInv, InitHInv, NextHInv, <1>1, PTL DEF Spec

(***************************************************************************)
(* The broker goes down, or an open connection loses its client, only when *)
(* a subscriber of a topic has left and the topic was published since.     *)
(***************************************************************************)
THEOREM SafeBeforeDeparture == Spec => []SafeUntilDeparture
<1>1. HInv => SafeUntilDeparture
  BY DEF HInv, Departed, Quiet, SafeUntilDeparture
<1> QED BY InitIInv, NextIInv, InitHInv, NextHInv, <1>1, PTL DEF Spec

-----------------------------------------------------------------------------
(* A subscribe claims free topics for one client, and nothing else changes *)
(* an owner.                                                               *)
LEMMA SubscribeClaims ==
  ASSUME TypeOK, RegistryAgrees, NEW a \in Addrs, NEW T \in SUBSET Topics,
         SubscribeChannels(a, T)
  PROVE  Registry!Claim
<1> DEFINE e == [id |-> cli[a].id, cli |-> a]
           owned == [t \in Topics |-> OwnerOf(t)]
<1>1. PICK new \in SUBSET (T \cap Storable) :
        /\ \A t \in new : KeyOf[t] \notin sub_trie
        /\ subscibe_table' =
             [t \in Topics |-> IF t \in new THEN {e} ELSE subscibe_table[t]]
  BY DEF SubscribeChannels, NewSets
<1>2. cli[a].id \in Nat
  BY DEF TypeOK, SubClient
<1>3. {e} # {} /\ (CHOOSE x \in {e} : TRUE).id = cli[a].id
  <2>1. (CHOOSE x \in {e} : TRUE) = e
    OBVIOUS
  <2> QED BY <2>1
<1>4. ASSUME NEW t \in Topics
      PROVE  /\ OwnerOf(t)' = IF t \in new THEN cli[a].id ELSE OwnerOf(t)
             /\ OwnerOf(t) \in Nat
             /\ t \in new => OwnerOf(t) = 0
  <2>1. subscibe_table'[t] = IF t \in new THEN {e} ELSE subscibe_table[t]
    BY <1>1
  <2>2. OwnerOf(t)' = IF t \in new THEN cli[a].id ELSE OwnerOf(t)
    <3>1. OwnerOf(t)' = IF subscibe_table'[t] = {} THEN 0
                        ELSE (CHOOSE x \in subscibe_table'[t] : TRUE).id
      BY DEF OwnerOf
    <3>2. CASE t \in new
      BY <1>3, <2>1, <3>1, <3>2
    <3>3. CASE t \notin new
      BY <2>1, <3>1, <3>3 DEF OwnerOf
    <3> QED BY <3>2, <3>3
  <2>3. OwnerOf(t) \in Nat
    BY DEF OwnerOf, TypeOK, Entry
  <2>4. t \in new => t \notin InUse
    BY <1>1 DEF RegistryAgrees
  <2> QED BY <2>2, <2>3, <2>4 DEF InUse, OwnerOf
<1>5. owned' \in [Topics -> Nat]
  BY <1>2, <1>4
<1>6. \A t \in Topics : owned[t] # 0 => owned'[t] = owned[t]
  BY <1>4
<1>7. \A t, u \in Topics :
        owned[t] = 0 /\ owned[u] = 0 /\ owned'[t] # 0 /\ owned'[u] # 0 =>
          owned'[t] = owned'[u]
  BY <1>4
<1> QED BY <1>5, <1>6, <1>7 DEF Registry!Claim, Registry!Free

(***************************************************************************)
(* The registry implements TopicOwner: whatever the clients do and however *)
(* they depart, a topic stays with the one that subscribed it first.       *)
(***************************************************************************)
THEOREM FirstOwns == Spec => OwnedByFirst
<1>1. Init => Registry!Init
  BY DEF Init, Registry!Init, OwnerOf
<1>2. IInv /\ [Next]_vars => [Registry!Claim]_([t \in Topics |-> OwnerOf(t)])
  <2> SUFFICES ASSUME IInv, [Next]_vars
               PROVE  \/ Registry!Claim
                      \/ UNCHANGED [t \in Topics |-> OwnerOf(t)]
    OBVIOUS
  <2>1. CASE UNCHANGED subscibe_table
    BY <2>1 DEF OwnerOf
  <2>2. ASSUME NEW f \in Fds, ReadRequest(f), ~UNCHANGED subscibe_table
        PROVE  Registry!Claim
    <3>1. watch[f].arg \in Addrs /\ request[f].topics \in SUBSET Topics
      BY <2>2, RequestAssumption DEF IInv, ReadRequest, TypeOK, Watch, Request
    <3>2. SubscribeChannels(watch[f].arg, request[f].topics)
      BY <2>2 DEF ReadRequest
    <3> QED BY <3>1, <3>2, SubscribeClaims DEF IInv
  <2>3. \/ UNCHANGED subscibe_table
        \/ \E f \in Fds : ReadRequest(f)
    BY DEF Next, PeerNext, HandlerNext, PublishNext, SendRequest, SendMessage,
           ClosePeer, AcceptPub, AcceptSub, ReadEof, SendReply, SendFails,
           SendNothing, ReadMessage, PubEof, NextTopic, PublishTo, PublishDone,
           registry, vars
  <2> QED BY <2>1, <2>2, <2>3
<1> QED BY InitIInv, NextIInv, <1>1, <1>2, PTL DEF Spec, OwnedByFirst, Registry!Spec

=============================================================================
