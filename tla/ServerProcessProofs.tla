------------------------ MODULE ServerProcessProofs -------------------------
(***************************************************************************)
(* Proofs about ServerProcess, for any number of processes, settings and   *)
(* subscribers: types, who listens, who is refused and who is left; the    *)
(* pid files; the ids of the subscribers and the table that leads from     *)
(* them to the subscribers.                                                *)
(***************************************************************************)
EXTENDS ServerProcess, TLAPS

Id == Seconds \X (0..MaxSeq - 1)

-----------------------------------------------------------------------------
(* Types. *)

(* What exits, crashes and kills leave. *)
LEMMA EndType ==
  ASSUME TypeOK, NEW p \in Procs, End(p)
  PROVE  /\ pc' \in [Procs -> Labels]
         /\ listening' \in [Procs -> SUBSET Sides]
         /\ counter' \in [Procs -> Nat]
         /\ accepted' \in [Procs -> Seq([id : Id, count : Nat])]
         /\ table' \in [Procs -> SUBSET [id : Id, client : Nat \ {0}]]
<1>1. <<>> \in Seq([id : Id, count : Nat]) /\ "dead" \in Labels
  BY DEF Labels
<1> QED BY <1>1 DEF End, Goto, TypeOK, Id

LEMMA InitTypeOK == Init => TypeOK
<1> SUFFICES ASSUME Init PROVE TypeOK
  OBVIOUS
<1>1. <<>> \in Seq([id : Seconds \X (0..MaxSeq - 1), count : Nat])
  OBVIOUS
<1> QED BY <1>1 DEF Init, TypeOK, Labels

LEMMA NextTypeOK == TypeOK /\ [Next]_vars => TypeOK'
<1> SUFFICES ASSUME TypeOK, [Next]_vars PROVE TypeOK'
  OBVIOUS
<1> USE DEF files, ids
<1>1. ASSUME NEW p \in Procs, Start(p) PROVE TypeOK'
  <2>1. CASE End(p)
    BY <1>1, <2>1, EndType DEF Start, TypeOK, Id
  <2>2. CASE ~End(p)
    <3>1. PICK n \in RandInt64(MaxSeq) : counter' = [counter EXCEPT ![p] = n]
      BY <1>1, <2>2 DEF Start
    <3>2. n \in Nat
      BY SeqAssumption DEF RandInt64
    <3> QED BY <1>1, <2>2, <3>1, <3>2 DEF Start, TypeOK, Goto, Labels
  <2> QED BY <2>1, <2>2
<1>2. ASSUME NEW p \in Procs, NEW file \in ConfigFiles, LoadConfig(p, file) PROVE TypeOK'
  <2>1. CASE Unusable(file)
    BY <1>2, <2>1, EndType DEF LoadConfig, TypeOK, Id
  <2>2. CASE ~Unusable(file)
    BY <1>2, <2>2 DEF LoadConfig, TypeOK, Goto, Labels
  <2> QED BY <2>1, <2>2
<1>3. ASSUME NEW p \in Procs, OpenLog(p) PROVE TypeOK'
  <2>1. CASE server[p].log_file \in BadPaths
    BY <1>3, <2>1, EndType DEF OpenLog, TypeOK, Id
  <2>2. CASE server[p].log_file \notin BadPaths
    BY <1>3, <2>2 DEF OpenLog, TypeOK, Goto, Labels
  <2> QED BY <2>1, <2>2
<1>4. ASSUME NEW p \in Procs, OpenPid(p) PROVE TypeOK'
  <2>1. CASE server[p].pid_file \in BadPaths
    BY <1>4, <2>1, EndType DEF OpenPid, TypeOK, Id
  <2>2. CASE server[p].pid_file \notin BadPaths
    <3>1. Users(server[p].pid_file) \subseteq Procs
      BY DEF Users
    <3> QED BY <1>4, <2>2, <3>1 DEF OpenPid, TypeOK, Goto, Labels
  <2> QED BY <2>1, <2>2
<1>5. ASSUME NEW p \in Procs, WritePid(p) PROVE TypeOK'
  BY <1>5 DEF WritePid, TypeOK, Goto, Labels
<1>6. ASSUME NEW p \in Procs, NEW side \in Sides, Bind(p, side) PROVE TypeOK'
  <2>1. CASE End(p)
    BY <1>6, <2>1, EndType DEF Bind, TypeOK, Id
  <2>2. CASE ~End(p)
    BY <1>6, <2>2 DEF Bind, AtListen, TypeOK, Goto, Labels
  <2> QED BY <2>1, <2>2
<1>7. ASSUME NEW p \in Procs, NEW side \in Sides, Listen(p, side) PROVE TypeOK'
  <2>1. CASE End(p)
    BY <1>7, <2>1, EndType DEF Listen, TypeOK, Id
  <2>2. CASE ~End(p)
    <3>1. Opened(side) \in Labels /\ (listening[p] \cup {side}) \in SUBSET Sides
      BY DEF Opened, Labels, TypeOK
    <3>2. /\ listening' = [listening EXCEPT ![p] = @ \cup {side}]
          /\ Goto(p, Opened(side))
          /\ UNCHANGED <<server, files, ids, killed, opened>>
      BY <1>7, <2>2 DEF Listen
    <3> QED BY <3>1, <3>2 DEF TypeOK, Goto
  <2> QED BY <2>1, <2>2
<1>8. ASSUME NEW p \in Procs, NEW sec \in Seconds, AcceptSub(p, sec) PROVE TypeOK'
  <2> DEFINE count  == counter[p] + 1
             id     == ObjectId(sec, count)
             client == Len(accepted[p]) + 1
  <2>1. accepted[p] \in Seq([id : Seconds \X (0..MaxSeq - 1), count : Nat])
    BY DEF TypeOK
  <2>2. count \in Nat /\ client \in Nat \ {0}
    BY <2>1 DEF TypeOK
  <2>3. id \in Seconds \X (0..MaxSeq - 1)
    BY <2>2, SeqAssumption DEF ObjectId
  <2> HIDE DEF count, id, client
  <2>4. [id |-> id, count |-> count] \in [id : Seconds \X (0..MaxSeq - 1), count : Nat]
    BY <2>2, <2>3
  <2>5. Append(accepted[p], [id |-> id, count |-> count])
          \in Seq([id : Seconds \X (0..MaxSeq - 1), count : Nat])
    BY <2>1, <2>4
  <2>6. Insert(table[p], id, client)
          \in SUBSET [id : Seconds \X (0..MaxSeq - 1), client : Nat \ {0}]
    BY <2>2, <2>3 DEF TypeOK, Insert
  <2>7. /\ counter' = [counter EXCEPT ![p] = count]
        /\ accepted' = [accepted EXCEPT ![p] = Append(@, [id |-> id, count |-> count])]
        /\ table' = [table EXCEPT ![p] = Insert(@, id, client)]
        /\ UNCHANGED <<pc, server, listening, files, killed, opened>>
    BY <1>8 DEF AcceptSub, count, id, client
  <2> QED BY <2>2, <2>5, <2>6, <2>7 DEF TypeOK
<1>9. ASSUME NEW p \in Procs, Kill(p) PROVE TypeOK'
  BY <1>9, EndType DEF Kill, TypeOK, Id
<1>10. CASE UNCHANGED vars
  BY <1>10 DEF vars, TypeOK, Paths
<1> QED BY <1>1, <1>2, <1>3, <1>4, <1>5, <1>6, <1>7, <1>8, <1>9, <1>10 DEF Next

(* Processes and their files, tables and ids keep their types, for every   *)
(* configuration.                                                          *)
THEOREM TypeCorrect == Spec => []TypeOK
BY InitTypeOK, NextTypeOK, PTL DEF Spec

-----------------------------------------------------------------------------
(* Who listens.  The program counter says which sockets of a process       *)
(* listen, and no two that do overlap; the kernel tells at listen, not at  *)
(* bind, so the second part holds for sockets of one process, too.         *)

Stages ==
  \A p \in Procs : /\ "pub" \in listening[p] <=> pc[p] \in {"sub_bind", "sub_listen", "loop"}
                   /\ "sub" \in listening[p] <=> pc[p] = "loop"

Apart ==
  \A p, q \in Procs, s, t \in Sides :
    s \in listening[p] /\ t \in listening[q] /\ Overlap(Address(p, s), Address(q, t))
      => p = q /\ s = t

(* A step that opens no socket and reads no file keeps them apart. *)
LEMMA FewerApart ==
  ASSUME Apart, server' = server, \A q \in Procs : listening'[q] \subseteq listening[q]
  PROVE  Apart'
BY DEF Apart, Address

LEMMA EndStages ==
  ASSUME TypeOK, Stages, NEW p \in Procs, End(p)
  PROVE  Stages' /\ \A q \in Procs : listening'[q] \subseteq listening[q]
BY DEF TypeOK, Stages, End, Goto

LEMMA GotoStages ==
  ASSUME TypeOK, Stages, NEW p \in Procs, NEW l, Goto(p, l), listening' = listening,
         pc[p] \in {"sub_bind", "sub_listen", "loop"} <=> l \in {"sub_bind", "sub_listen", "loop"},
         pc[p] = "loop" <=> l = "loop"
  PROVE  Stages' /\ \A q \in Procs : listening'[q] \subseteq listening[q]
BY DEF TypeOK, Stages, Goto

LEMMA ListenApart ==
  ASSUME TypeOK, Apart, NEW p \in Procs, NEW side \in Sides, Rivals(p, side) = {},
         listening' = [listening EXCEPT ![p] = @ \cup {side}], server' = server
  PROVE  Apart'
<1> SUFFICES ASSUME NEW q \in Procs, NEW r \in Procs, NEW s \in Sides, NEW t \in Sides,
                    s \in listening'[q], t \in listening'[r],
                    Overlap(Address(q, s), Address(r, t))
             PROVE  q = r /\ s = t
  BY DEF Apart, Address
<1>1. \A u \in Procs, v \in Sides :
        v \in listening[u] => ~Overlap(Address(u, v), Address(p, side))
  <2> SUFFICES ASSUME NEW u \in Procs, NEW v \in Sides, v \in listening[u],
                      Overlap(Address(u, v), Address(p, side))
               PROVE  FALSE
    OBVIOUS
  <2>1. <<u, v>> \in Rivals(p, side)
    BY DEF Rivals
  <2> QED BY <2>1
<1>2. \A u \in Procs, v \in Sides :
        v \in listening'[u] => v \in listening[u] \/ (u = p /\ v = side)
  BY DEF TypeOK
<1>3. CASE s \in listening[q] /\ t \in listening[r]
  BY <1>3 DEF Apart
<1>4. CASE q = p /\ s = side /\ t \in listening[r]
  <2>1. Overlap(Address(r, t), Address(q, s))
    BY DEF Overlap
  <2> QED BY <1>1, <1>4, <2>1
<1>5. CASE r = p /\ t = side /\ s \in listening[q]
  BY <1>1, <1>5
<1> QED BY <1>2, <1>3, <1>4, <1>5

LEMMA ListenStages ==
  ASSUME TypeOK, Stages, NEW p \in Procs, NEW side \in Sides, pc[p] = AtListen(side),
         Goto(p, Opened(side)), listening' = [listening EXCEPT ![p] = @ \cup {side}]
  PROVE  Stages'
BY DEF TypeOK, Stages, Goto, AtListen, Opened, Sides

(* Reading its file changes the addresses of a process that listens on     *)
(* none.                                                                   *)
LEMMA LoadApart ==
  ASSUME TypeOK, Stages, Apart, NEW p \in Procs, pc[p] = "config", NEW new,
         server' = [server EXCEPT ![p] = new], listening' = listening
  PROVE  Apart'
<1>1. listening[p] = {}
  BY DEF TypeOK, Stages, Sides
<1>2. \A q \in Procs, s \in Sides : s \in listening[q] => Address(q, s)' = Address(q, s)
  BY <1>1 DEF TypeOK, Address
<1> QED BY <1>2 DEF Apart

Listeners == TypeOK /\ Stages /\ Apart

LEMMA NextListeners ==
  ASSUME Listeners, [Next]_vars
  PROVE  (Stages /\ Apart)'
<1> USE DEF Listeners, files, ids
<1>1. ASSUME NEW p \in Procs, Start(p) PROVE (Stages /\ Apart)'
  <2>1. CASE End(p)
    BY <1>1, <2>1, EndStages, FewerApart DEF Start
  <2>2. CASE Goto(p, "config") /\ UNCHANGED listening
    BY <1>1, <2>2, GotoStages, FewerApart DEF Start
  <2> QED BY <1>1, <2>1, <2>2 DEF Start
<1>2. ASSUME NEW p \in Procs, NEW file \in ConfigFiles, LoadConfig(p, file)
      PROVE (Stages /\ Apart)'
  <2>1. CASE End(p) /\ UNCHANGED server
    BY <2>1, EndStages, FewerApart
  <2>2. CASE ~Unusable(file)
    <3>1. /\ pc[p] = "config" /\ Goto(p, "log") /\ listening' = listening
          /\ server' = [server EXCEPT ![p] = [key \in DOMAIN Defaults |-> Setting(file, key)]]
      BY <1>2, <2>2 DEF LoadConfig
    <3> QED BY <3>1, GotoStages, LoadApart
  <2> QED BY <1>2, <2>1, <2>2 DEF LoadConfig
<1>3. ASSUME NEW p \in Procs, OpenLog(p) PROVE (Stages /\ Apart)'
  <2>1. CASE End(p)
    BY <1>3, <2>1, EndStages, FewerApart DEF OpenLog
  <2>2. CASE Goto(p, "pid") /\ UNCHANGED listening
    BY <1>3, <2>2, GotoStages, FewerApart DEF OpenLog
  <2> QED BY <1>3, <2>1, <2>2 DEF OpenLog
<1>4. ASSUME NEW p \in Procs, OpenPid(p) PROVE (Stages /\ Apart)'
  <2>1. CASE End(p)
    BY <1>4, <2>1, EndStages, FewerApart DEF OpenPid
  <2>2. CASE Goto(p, "pid_write") /\ UNCHANGED listening
    BY <1>4, <2>2, GotoStages, FewerApart DEF OpenPid
  <2> QED BY <1>4, <2>1, <2>2 DEF OpenPid
<1>5. ASSUME NEW p \in Procs, WritePid(p) PROVE (Stages /\ Apart)'
  BY <1>5, GotoStages, FewerApart DEF WritePid
<1>6. ASSUME NEW p \in Procs, NEW side \in Sides, Bind(p, side) PROVE (Stages /\ Apart)'
  <2>1. CASE End(p)
    BY <1>6, <2>1, EndStages, FewerApart DEF Bind
  <2>2. CASE Goto(p, AtListen(side)) /\ UNCHANGED listening
    <3>1. /\ pc[p] \in {"sub_bind", "sub_listen", "loop"}
               <=> AtListen(side) \in {"sub_bind", "sub_listen", "loop"}
          /\ pc[p] # "loop" /\ AtListen(side) # "loop"
      BY <1>6 DEF Bind, AtBind, AtListen
    <3> QED BY <1>6, <2>2, <3>1, GotoStages, FewerApart DEF Bind
  <2> QED BY <1>6, <2>1, <2>2 DEF Bind
<1>7. ASSUME NEW p \in Procs, NEW side \in Sides, Listen(p, side) PROVE (Stages /\ Apart)'
  <2>1. CASE End(p)
    BY <1>7, <2>1, EndStages, FewerApart DEF Listen
  <2>2. CASE Rivals(p, side) = {}
    BY <1>7, <2>2, ListenStages, ListenApart DEF Listen
  <2> QED BY <1>7, <2>1, <2>2 DEF Listen
<1>8. ASSUME NEW p \in Procs, NEW sec \in Seconds, AcceptSub(p, sec) PROVE (Stages /\ Apart)'
  BY <1>8, FewerApart DEF AcceptSub, Stages
<1>9. ASSUME NEW p \in Procs, Kill(p) PROVE (Stages /\ Apart)'
  BY <1>9, EndStages, FewerApart DEF Kill
<1>10. CASE UNCHANGED vars
  BY <1>10, FewerApart DEF vars, Stages
<1> QED BY <1>1, <1>2, <1>3, <1>4, <1>5, <1>6, <1>7, <1>8, <1>9, <1>10 DEF Next

(* A broker in its loop listens on both its addresses and nobody else      *)
(* listens on one of them, whatever processes were started with whatever   *)
(* settings and in whatever order they bound and listened.                 *)
THEOREM LoopServed == Spec => []LoopServes
<1>1. Init => Listeners
  BY InitTypeOK DEF Init, Listeners, Stages, Apart
<1>2. Listeners /\ [Next]_vars => Listeners'
  BY NextTypeOK, NextListeners DEF Listeners
<1>3. Listeners => LoopServes
  <2> SUFFICES ASSUME Listeners, NEW p \in Procs, pc[p] = "loop", NEW side \in Sides
               PROVE  Rivals(p, side) \cup {<<p, side>>} = {<<p, side>>} /\ side \in listening[p]
    BY DEF LoopServes
  <2>1. side \in listening[p]
    BY DEF Listeners, Stages, Sides
  <2>2. ASSUME NEW r \in Rivals(p, side) PROVE r = <<p, side>>
    <3>1. PICK q \in Procs, t \in Sides : r = <<q, t>>
      BY DEF Rivals
    <3>2. t \in listening[q] /\ Overlap(Address(q, t), Address(p, side))
      BY <3>1 DEF Rivals
    <3> QED BY <2>1, <3>1, <3>2 DEF Listeners, Apart
  <2> QED BY <2>1, <2>2
<1> QED BY <1>1, <1>2, <1>3, PTL DEF Spec

-----------------------------------------------------------------------------
(* Who is left.  A refused process leaves another one behind, listening on *)
(* its own ports, since its two ports do not collide with each other.      *)

AtSocket(p, side) == pc[p] \in {AtBind(side), AtListen(side)}

AtSockets == {"pub_bind", "pub_listen", "sub_bind", "sub_listen", "loop"}

Arrived == \A p \in Procs : /\ pc[p] \in AtSockets => p \in opened
                            /\ p \in opened => pc[p] \in AtSockets \cup {"dead"}

Survivors == Listeners /\ Arrived /\ OneSurvives

LEMMA PortBounds ==
  PortMax \in Nat /\ FiveDigits \in Nat /\ PortMax <= FiveDigits
BY DEF PortMax, FiveDigits

LEMMA PortKept ==
  ASSUME NEW n \in 0..PortMax
  PROVE  PortOf(n) = n
<1> DEFINE S == {n \div i : i \in {1, 10, 100, 1000, 10000, 100000}} \cap 0..FiveDigits
<1>0. n \in 0..FiveDigits
  BY PortBounds
<1>1. n \in S
  <2>1. n \div 1 = n
    OBVIOUS
  <2> QED BY <1>0, <2>1
<1>2. \A m \in S : m \in Int /\ m <= n
  <2>1. \A i \in {1, 10, 100, 1000, 10000, 100000} : n \div i \in Int /\ n \div i <= n
    BY <1>0, SMTT(30)
  <2> QED BY <2>1
<1>4. n % (PortMax + 1) = n
  <2>1. PortMax \in Nat
    BY PortBounds
  <2> QED BY <2>1, Z3
<1>5. PortOf(n) = Max(S) % (PortMax + 1)
  BY DEF PortOf
<1> HIDE DEF S
<1>3. Max(S) = n
  <2>1. \A y \in S : n >= y
    BY <1>2
  <2>2. \A x \in S : (\A y \in S : x >= y) => x = n
    BY <1>1, <1>2
  <2> QED BY <1>1, <2>1, <2>2, Zenon DEF Max
<1> QED BY <1>3, <1>4, <1>5

(* Where it is refused at its sockets with no address at fault, a process  *)
(* sees another one listening.                                             *)
LEMMA RivalLives ==
  ASSUME Listeners, Arrived, SameAddresses, NEW p \in opened, NEW side \in Sides,
         AtSocket(p, side), Rivals(p, side) # {}
  PROVE  \E q \in opened : q # p /\ pc[q] # "dead"
<1> USE DEF Listeners
<1>0. p \in Procs
  BY DEF TypeOK
<1>1. PICK q \in Procs, t \in Sides :
        t \in listening[q] /\ Overlap(Address(q, t), Address(p, side))
  BY DEF Rivals
<1>2. pc[q] \in {"sub_bind", "sub_listen", "loop"} /\ q \in opened
  BY <1>1 DEF Stages, Arrived, AtSockets, Sides
<1>3. q # p
  <2> SUFFICES ASSUME q = p PROVE FALSE
    OBVIOUS
  <2>1. side = "sub" /\ t = "pub"
    BY <1>0, <1>1, <1>2 DEF AtSocket, AtBind, AtListen, Sides, Stages
  <2>2. PortOf(server[p].pub_port) = PortOf(server[p].sub_port)
    BY <1>1, <2>1 DEF Overlap, Address
  <2>3. server[p].pub_port \in 0..PortMax /\ server[p].sub_port \in 0..PortMax
        /\ server[p].pub_port # server[p].sub_port
    BY DEF SameAddresses
  <2> QED BY <2>2, <2>3, PortKept
<1> QED BY <1>2, <1>3

LEMMA EndSurvivors ==
  ASSUME Survivors, NEW p \in Procs, End(p), opened' = opened, server' = server,
         SameAddresses /\ killed' = {} /\ p \in opened /\ killed = {}
           => \E q \in opened : q # p /\ pc[q] # "dead",
         killed \subseteq killed'
  PROVE  (Arrived /\ OneSurvives)'
<1>1. pc'[p] = "dead" /\ \A q \in Procs : q # p => pc'[q] = pc[q]
  BY DEF Survivors, Listeners, TypeOK, End, Goto
<1>2. Arrived'
  BY <1>1 DEF Survivors, Arrived, AtSockets
<1>3. opened \subseteq Procs /\ (SameAddresses' => SameAddresses)
  BY DEF Survivors, Listeners, TypeOK, SameAddresses
<1>4. OneSurvives'
  BY <1>1, <1>3 DEF Survivors, OneSurvives
<1> QED BY <1>2, <1>4

LEMMA GotoSurvivors ==
  ASSUME Survivors, NEW p \in Procs, NEW l \in Labels, Goto(p, l), l # "dead",
         l \in AtSockets <=> pc[p] \in AtSockets, pc[p] # "dead",
         opened' = opened, killed' = killed,
         \A q \in opened : server'[q] = server[q]
  PROVE  (Arrived /\ OneSurvives)'
<1>1. pc'[p] = l /\ \A q \in Procs : q # p => pc'[q] = pc[q]
  BY DEF Survivors, Listeners, TypeOK, Goto
<1>2. Arrived'
  BY <1>1 DEF Survivors, Arrived, AtSockets
<1>3. opened \subseteq Procs /\ (SameAddresses' => SameAddresses)
  <2>1. opened \subseteq Procs
    BY DEF Survivors, Listeners, TypeOK
  <2>2. ASSUME SameAddresses', NEW q \in opened, NEW r \in opened
        PROVE  /\ server[q].pub_port = server[r].pub_port /\ server[q].pub_ip = server[r].pub_ip
               /\ server[q].sub_port = server[r].sub_port /\ server[q].sub_ip = server[r].sub_ip
               /\ server[q].pub_port # server[q].sub_port
               /\ {server[q].pub_port, server[q].sub_port} \subseteq 0..PortMax
               /\ {server[q].pub_ip, server[q].sub_ip} \cap BadIps = {}
    <3>1. server'[q] = server[q] /\ server'[r] = server[r]
      OBVIOUS
    <3> QED BY <2>2, <3>1 DEF SameAddresses
  <2> QED BY <2>1, <2>2 DEF SameAddresses
<1>4. OneSurvives'
  BY <1>1, <1>3 DEF Survivors, OneSurvives
<1> QED BY <1>2, <1>4

LEMMA SameSurvivors ==
  ASSUME Survivors, UNCHANGED <<pc, server, opened, killed>>
  PROVE  (Arrived /\ OneSurvives)'
<1>1. SameAddresses' => SameAddresses
  BY DEF SameAddresses
<1> QED BY <1>1 DEF Survivors, Arrived, OneSurvives

LEMMA NextSurvivors ==
  ASSUME Survivors, [Next]_vars
  PROVE  (Arrived /\ OneSurvives)'
<1> USE DEF files, ids
<1>1. ASSUME NEW p \in Procs, Start(p) PROVE (Arrived /\ OneSurvives)'
  <2>1. pc[p] = "off" /\ p \notin opened
    BY <1>1 DEF Start, Survivors, Arrived, AtSockets
  <2> QED BY <1>1, <2>1, EndSurvivors, GotoSurvivors DEF Start, Labels, AtSockets
<1>2. ASSUME NEW p \in Procs, NEW file \in ConfigFiles, LoadConfig(p, file)
      PROVE (Arrived /\ OneSurvives)'
  <2>1. pc[p] = "config" /\ p \notin opened
    BY <1>2 DEF LoadConfig, Survivors, Arrived, AtSockets
  <2>2. CASE Unusable(file)
    BY <1>2, <2>1, <2>2, EndSurvivors DEF LoadConfig
  <2>3. CASE ~Unusable(file)
    <3>1. /\ Goto(p, "log") /\ opened' = opened /\ killed' = killed
          /\ \E new : server' = [server EXCEPT ![p] = new]
      BY <1>2, <2>3 DEF LoadConfig
    <3>2. \A q \in opened : server'[q] = server[q]
      BY <2>1, <3>1 DEF Survivors, Listeners, TypeOK
    <3> QED BY <2>1, <3>1, <3>2, GotoSurvivors DEF Labels, AtSockets
  <2> QED BY <2>2, <2>3
<1>3. ASSUME NEW p \in Procs, OpenLog(p) PROVE (Arrived /\ OneSurvives)'
  <2>1. pc[p] = "log" /\ p \notin opened
    BY <1>3 DEF OpenLog, Survivors, Arrived, AtSockets
  <2> QED BY <1>3, <2>1, EndSurvivors, GotoSurvivors DEF OpenLog, Labels, AtSockets
<1>4. ASSUME NEW p \in Procs, OpenPid(p) PROVE (Arrived /\ OneSurvives)'
  <2>1. pc[p] = "pid" /\ p \notin opened
    BY <1>4 DEF OpenPid, Survivors, Arrived, AtSockets
  <2> QED BY <1>4, <2>1, EndSurvivors, GotoSurvivors DEF OpenPid, Labels, AtSockets
<1>5. ASSUME NEW p \in Procs, WritePid(p) PROVE (Arrived /\ OneSurvives)'
  <2>1. pc'[p] = "pub_bind" /\ \A q \in Procs : q # p => pc'[q] = pc[q]
    BY <1>5 DEF WritePid, Goto, Survivors, Listeners, TypeOK
  <2>2. opened' = opened \cup {p}
    BY <1>5 DEF WritePid
  <2> QED BY <2>1, <2>2 DEF Survivors, Arrived, OneSurvives, AtSockets
<1>6. ASSUME NEW p \in Procs, NEW side \in Sides, Bind(p, side)
      PROVE (Arrived /\ OneSurvives)'
  <2>1. /\ pc[p] \in AtSockets /\ pc[p] # "dead" /\ AtSocket(p, side)
        /\ AtListen(side) \in AtSockets /\ AtListen(side) \in Labels /\ AtListen(side) # "dead"
    BY <1>6 DEF Bind, AtSocket, AtBind, AtListen, AtSockets, Labels
  <2>2. CASE Address(p, side).ip \notin BadIps /\ MayBind(p, side)
    <3>1. Goto(p, AtListen(side)) /\ UNCHANGED <<server, opened, killed>>
      BY <1>6, <2>2 DEF Bind
    <3> QED BY <2>1, <3>1, GotoSurvivors
  <2>3. CASE ~(Address(p, side).ip \notin BadIps /\ MayBind(p, side))
    <3>1. End(p) /\ UNCHANGED <<server, opened, killed>>
      BY <1>6, <2>3 DEF Bind
    <3>2. SameAddresses /\ p \in opened => Address(p, side).ip \notin BadIps
      <4> SUFFICES ASSUME SameAddresses, p \in opened
                   PROVE  Address(p, side).ip \notin BadIps
        OBVIOUS
      <4>1. server[p].pub_ip \notin BadIps /\ server[p].sub_ip \notin BadIps
        BY DEF SameAddresses
      <4> QED BY <4>1 DEF Address
    <3>3. SameAddresses /\ p \in opened => \E q \in opened : q # p /\ pc[q] # "dead"
      BY <2>1, <2>3, <3>2, RivalLives DEF MayBind, Survivors
    <3> QED BY <3>1, <3>3, EndSurvivors
  <2> QED BY <2>2, <2>3
<1>7. ASSUME NEW p \in Procs, NEW side \in Sides, Listen(p, side)
      PROVE (Arrived /\ OneSurvives)'
  <2>1. /\ pc[p] \in AtSockets /\ pc[p] # "dead" /\ AtSocket(p, side)
        /\ Opened(side) \in AtSockets /\ Opened(side) \in Labels /\ Opened(side) # "dead"
    BY <1>7 DEF Listen, AtSocket, AtListen, Opened, AtSockets, Labels
  <2>2. CASE Rivals(p, side) = {}
    <3>1. Goto(p, Opened(side)) /\ UNCHANGED <<server, opened, killed>>
      BY <1>7, <2>2 DEF Listen
    <3> QED BY <2>1, <3>1, GotoSurvivors
  <2>3. CASE Rivals(p, side) # {}
    <3>1. End(p) /\ UNCHANGED <<server, opened, killed>>
      BY <1>7, <2>3 DEF Listen
    <3>2. SameAddresses /\ p \in opened => \E q \in opened : q # p /\ pc[q] # "dead"
      BY <2>1, <2>3, RivalLives DEF Survivors
    <3> QED BY <3>1, <3>2, EndSurvivors
  <2> QED BY <2>2, <2>3
<1>8. ASSUME NEW p \in Procs, NEW sec \in Seconds, AcceptSub(p, sec)
      PROVE (Arrived /\ OneSurvives)'
  <2>1. UNCHANGED <<pc, server, opened, killed>>
    BY <1>8 DEF AcceptSub
  <2> QED BY <2>1, SameSurvivors
<1>9. ASSUME NEW p \in Procs, Kill(p) PROVE (Arrived /\ OneSurvives)'
  <2>1. killed' # {} /\ killed \subseteq killed'
    BY <1>9 DEF Kill
  <2> QED BY <1>9, <2>1, EndSurvivors DEF Kill
<1>10. CASE UNCHANGED vars
  BY <1>10, SameSurvivors DEF vars
<1> QED BY <1>1, <1>2, <1>3, <1>4, <1>5, <1>6, <1>7, <1>8, <1>9, <1>10 DEF Next

(* Any number of brokers started with the same two addresses leave one     *)
(* that serves them, unless one was killed.                                *)
THEOREM OneServes == Spec => []OneSurvives
<1>1. Init => Survivors
  BY InitTypeOK DEF Init, Survivors, Listeners, Stages, Apart, Arrived, AtSockets, OneSurvives
<1>2. Survivors /\ [Next]_vars => Survivors'
  BY NextTypeOK, NextListeners, NextSurvivors DEF Survivors, Listeners
<1>3. Survivors => OneSurvives
  BY DEF Survivors
<1> QED BY <1>1, <1>2, <1>3, PTL DEF Spec

-----------------------------------------------------------------------------
(* Pid files.  The name a process leaves in its file can be replaced only  *)
(* by a process with the same file, and both are recorded as contending    *)
(* from the moment the second of them opens it.                            *)

Holds(p) == pc[p] \notin {"off", "config", "log", "pid", "dead"}

PathsKnown == \A p \in Procs : server[p].pid_file \in Paths

Shared ==
  \A p, q \in Procs :
    p # q /\ Holds(p) /\ Holds(q) /\ server[p].pid_file = server[q].pid_file
      => p \in contended /\ q \in contended

Written ==
  \A p \in Procs \ (contended \cup unwritten) :
    Holds(p) /\ pc[p] # "pid_write" => pid_file[server[p].pid_file] = p

PidFiles == TypeOK /\ PathsKnown /\ Shared /\ Written

(* A step that neither brings a process to its pid file nor touches one. *)
LEMMA FilesKept ==
  ASSUME PidFiles, NEW p \in Procs, UNCHANGED <<server, files>>,
         \A q \in Procs : q # p => pc'[q] = pc[q],
         pc'[p] = "dead" \/ (Holds(p) /\ pc[p] # "pid_write")
           \/ pc'[p] \in {"off", "config", "log", "pid"}
  PROVE  (PathsKnown /\ Shared /\ Written)'
<1>1. \A q \in Procs : Holds(q)' => Holds(q) /\ (pc[q] = "pid_write" => pc'[q] = "pid_write")
  BY DEF Holds
<1>2. pid_file' = pid_file /\ contended' = contended /\ unwritten' = unwritten
  BY DEF files
<1>3. PathsKnown' /\ Shared'
  BY <1>1, <1>2 DEF PidFiles, PathsKnown, Shared, Paths
<1>4. Written'
  BY <1>1, <1>2 DEF PidFiles, Written
<1> QED BY <1>3, <1>4

LEMMA EndFiles ==
  ASSUME PidFiles, NEW p \in Procs, End(p), UNCHANGED <<server, files>>
  PROVE  (PathsKnown /\ Shared /\ Written)'
<1>1. pc'[p] = "dead" /\ \A q \in Procs : q # p => pc'[q] = pc[q]
  BY DEF PidFiles, TypeOK, End, Goto
<1> QED BY <1>1, FilesKept

LEMMA GotoFiles ==
  ASSUME PidFiles, NEW p \in Procs, NEW l, Goto(p, l), UNCHANGED <<server, files>>,
         (Holds(p) /\ pc[p] # "pid_write") \/ l \in {"config", "log", "pid"}
  PROVE  (PathsKnown /\ Shared /\ Written)'
<1>1. pc'[p] = l /\ \A q \in Procs : q # p => pc'[q] = pc[q]
  BY DEF PidFiles, TypeOK, Goto
<1> QED BY <1>1, FilesKept

LEMMA LoadFiles ==
  ASSUME PidFiles, NEW p \in Procs, NEW file \in ConfigFiles, LoadConfig(p, file), ~Unusable(file)
  PROVE  (PathsKnown /\ Shared /\ Written)'
<1>1. /\ pc[p] = "config" /\ Goto(p, "log")
      /\ server' = [server EXCEPT ![p] = [key \in DOMAIN Defaults |-> Setting(file, key)]]
      /\ pid_file' = pid_file /\ contended' = contended /\ unwritten' = unwritten
  BY DEF LoadConfig, files
<1>2. server'[p].pid_file \in Paths
  <2>1. "pid_file" \in DOMAIN Defaults
    BY DefaultsAssumption DEF Strings
  <2>2. Setting(file, "pid_file") \in Paths
    <3>1. DOMAIN << >> = {}
      OBVIOUS
    <3>2. CASE "pid_file" \notin DOMAIN Items(file)
      BY <3>2 DEF Setting, Paths
    <3>3. CASE "pid_file" \in DOMAIN Items(file)
      <4>1. file \in ConfigFiles \ {NoFile, NotJson} /\ Items(file) = file
        BY <3>1, <3>3 DEF Items, Unusable
      <4>2. Setting(file, "pid_file") = file.pid_file.valuestring
        BY <3>3, <4>1 DEF Setting, Strings
      <4> QED BY <3>3, <4>1, <4>2 DEF Paths
    <3> QED BY <3>2, <3>3
  <2> QED BY <1>1, <2>1, <2>2 DEF PidFiles, TypeOK
<1>3. pc'[p] = "log" /\ \A q \in Procs : q # p => pc'[q] = pc[q] /\ server'[q] = server[q]
  BY <1>1 DEF PidFiles, TypeOK, Goto
<1>4. \A q \in Procs : Holds(q)' => q # p /\ Holds(q)
  BY <1>3 DEF Holds
<1>5. PathsKnown'
  BY <1>2, <1>3 DEF PidFiles, PathsKnown, Paths
<1> QED BY <1>1, <1>3, <1>4, <1>5 DEF PidFiles, Shared, Written

LEMMA OpenFiles ==
  ASSUME PidFiles, NEW p \in Procs, OpenPid(p), server[p].pid_file \notin BadPaths
  PROVE  (PathsKnown /\ Shared /\ Written)'
<1> DEFINE path == server[p].pid_file
<1>1. /\ pc[p] = "pid" /\ Goto(p, "pid_write") /\ server' = server
      /\ pid_file' = [pid_file EXCEPT ![path] = NULL]
      /\ contended' = contended \cup (IF Users(path) # {} THEN Users(path) \cup {p} ELSE {})
      /\ unwritten' = unwritten
  BY DEF OpenPid
<1>2. pc'[p] = "pid_write" /\ \A q \in Procs : q # p => pc'[q] = pc[q]
  BY <1>1 DEF PidFiles, TypeOK, Goto
<1>3. \A q \in Procs : q # p /\ Holds(q)' => Holds(q)
  BY <1>2 DEF Holds
<1>4. \A q \in Procs : q # p /\ Holds(q)' /\ server[q].pid_file = path
        => q \in contended' /\ p \in contended'
  <2> SUFFICES ASSUME NEW q \in Procs, q # p, Holds(q), server[q].pid_file = path
               PROVE  q \in Users(path)
    BY <1>1, <1>3
  <2> QED BY DEF Users, Holds
<1>5. contended \subseteq contended'
  BY <1>1
<1>6. Shared'
  BY <1>1, <1>3, <1>4, <1>5 DEF PidFiles, Shared
<1>7. Written'
  <2> SUFFICES ASSUME NEW q \in Procs, q \notin contended', q \notin unwritten, Holds(q)', pc'[q] # "pid_write"
               PROVE  pid_file'[server[q].pid_file] = q
    BY <1>1 DEF Written
  <2>1. q # p /\ Holds(q) /\ pc[q] # "pid_write"
    BY <1>2, <1>3
  <2>2. server[q].pid_file # path
    BY <1>4, <2>1
  <2>3. pid_file[server[q].pid_file] = q
    BY <1>5, <2>1 DEF PidFiles, Written
  <2> QED BY <1>1, <2>2, <2>3 DEF PidFiles, TypeOK, PathsKnown
<1>8. PathsKnown'
  BY <1>1 DEF PidFiles, PathsKnown, Paths
<1> QED BY <1>6, <1>7, <1>8

LEMMA WriteFiles ==
  ASSUME PidFiles, NEW p \in Procs, WritePid(p)
  PROVE  (PathsKnown /\ Shared /\ Written)'
<1> DEFINE path == server[p].pid_file
<1>1. /\ pc[p] = "pid_write" /\ Goto(p, "pub_bind") /\ server' = server
      /\ contended' = contended
      /\ \/ pid_file' = [pid_file EXCEPT ![path] = p] /\ unwritten' = unwritten
         \/ pid_file' = pid_file /\ unwritten' = unwritten \cup {p}
  BY DEF WritePid
<1>2. pc'[p] = "pub_bind" /\ \A q \in Procs : q # p => pc'[q] = pc[q]
  BY <1>1 DEF PidFiles, TypeOK, Goto
<1>3. Holds(p) /\ \A q \in Procs : Holds(q)' => Holds(q)
  BY <1>1, <1>2 DEF Holds
<1>4. PathsKnown' /\ Shared'
  BY <1>1, <1>3 DEF PidFiles, PathsKnown, Shared, Paths
<1>5. Written'
  <2> SUFFICES ASSUME NEW q \in Procs, q \notin contended, q \notin unwritten',
                      Holds(q)', pc'[q] # "pid_write"
               PROVE  pid_file'[server[q].pid_file] = q
    BY <1>1 DEF Written
  <2>1. CASE q = p
    BY <1>1, <2>1 DEF PidFiles, TypeOK, PathsKnown
  <2>2. CASE q # p
    <3>1. server[q].pid_file # path
      BY <1>3, <2>2 DEF PidFiles, Shared
    <3>a. q \notin unwritten
      BY <1>1
    <3>2. pid_file[server[q].pid_file] = q
      BY <1>2, <1>3, <2>2, <3>a DEF PidFiles, Written
    <3> QED BY <1>1, <3>1, <3>2 DEF PidFiles, TypeOK, PathsKnown
  <2> QED BY <2>1, <2>2
<1> QED BY <1>4, <1>5

LEMMA NextFiles ==
  ASSUME PidFiles, [Next]_vars
  PROVE  (PathsKnown /\ Shared /\ Written)'
<1> USE DEF files
<1>1. ASSUME NEW p \in Procs, Start(p) PROVE (PathsKnown /\ Shared /\ Written)'
  BY <1>1, EndFiles, GotoFiles DEF Start
<1>2. ASSUME NEW p \in Procs, NEW file \in ConfigFiles, LoadConfig(p, file)
      PROVE (PathsKnown /\ Shared /\ Written)'
  BY <1>2, EndFiles, LoadFiles DEF LoadConfig
<1>3. ASSUME NEW p \in Procs, OpenLog(p) PROVE (PathsKnown /\ Shared /\ Written)'
  BY <1>3, EndFiles, GotoFiles DEF OpenLog
<1>4. ASSUME NEW p \in Procs, OpenPid(p) PROVE (PathsKnown /\ Shared /\ Written)'
  <2>1. CASE server[p].pid_file \in BadPaths
    BY <1>4, <2>1, EndFiles DEF OpenPid
  <2> QED BY <1>4, <2>1, OpenFiles
<1>5. ASSUME NEW p \in Procs, WritePid(p) PROVE (PathsKnown /\ Shared /\ Written)'
  BY <1>5, WriteFiles
<1>6. ASSUME NEW p \in Procs, NEW side \in Sides, Bind(p, side)
      PROVE (PathsKnown /\ Shared /\ Written)'
  <2>1. Holds(p) /\ pc[p] # "pid_write"
    BY <1>6 DEF Bind, AtBind, Holds
  <2> QED BY <1>6, <2>1, EndFiles, GotoFiles DEF Bind
<1>7. ASSUME NEW p \in Procs, NEW side \in Sides, Listen(p, side)
      PROVE (PathsKnown /\ Shared /\ Written)'
  <2>1. Holds(p) /\ pc[p] # "pid_write"
    BY <1>7 DEF Listen, AtListen, Holds
  <2> QED BY <1>7, <2>1, EndFiles, GotoFiles DEF Listen
<1>8. ASSUME NEW p \in Procs, NEW sec \in Seconds, AcceptSub(p, sec)
      PROVE (PathsKnown /\ Shared /\ Written)'
  BY <1>8 DEF AcceptSub, PidFiles, PathsKnown, Shared, Written, Holds, Paths
<1>9. ASSUME NEW p \in Procs, Kill(p) PROVE (PathsKnown /\ Shared /\ Written)'
  BY <1>9, EndFiles DEF Kill
<1>10. CASE UNCHANGED vars
  BY <1>10 DEF vars, PidFiles, PathsKnown, Shared, Written, Holds, Paths
<1> QED BY <1>1, <1>2, <1>3, <1>4, <1>5, <1>6, <1>7, <1>8, <1>9, <1>10 DEF Next

(* The pid file of a broker in its loop names it unless another process    *)
(* opened the file while it was alive, for any number of processes and any *)
(* configuration files.                                                    *)
THEOREM PidFileTrue == Spec => []PidFileNames
<1>1. Init => PidFiles
  <2> SUFFICES ASSUME Init PROVE PidFiles
    OBVIOUS
  <2>1. \A p \in Procs : server[p].pid_file \in Paths /\ ~Holds(p)
    BY DEF Init, Paths, Holds
  <2> QED BY <2>1, InitTypeOK DEF PidFiles, PathsKnown, Shared, Written
<1>2. PidFiles /\ [Next]_vars => PidFiles'
  BY NextTypeOK, NextFiles DEF PidFiles
<1>3. PidFiles => PidFileNames
  BY DEF PidFiles, Written, Holds, PidFileNames
<1> QED BY <1>1, <1>2, <1>3, PTL DEF Spec

-----------------------------------------------------------------------------
(* Ids.  A process counts its subscribers without a gap, so an id below    *)
(* 2^24 ends in a number of its own.                                       *)

Fresh == \A p \in Procs : pc[p] = "off" => accepted[p] = <<>>

Numbered ==
  \A p \in Procs : \A i \in DOMAIN accepted[p] :
    /\ accepted[p][i].count \in 1..counter[p]
    /\ accepted[p][i].id[2] = IF accepted[p][i].count >= MaxSeq
                                THEN 0 ELSE accepted[p][i].count
    /\ \A j \in DOMAIN accepted[p] : i < j => accepted[p][i].count < accepted[p][j].count

Ids == TypeOK /\ Fresh /\ Numbered

LEMMA EndIds ==
  ASSUME Ids, NEW p \in Procs, End(p)
  PROVE  (Fresh /\ Numbered)'
<1>1. DOMAIN << >> = {}
  OBVIOUS
<1>2. \A q \in Procs : accepted'[q] = <<>> \/ (accepted'[q] = accepted[q] /\ counter'[q] = counter[q])
  BY DEF Ids, TypeOK, End
<1>3. \A q \in Procs : pc'[q] = "off" => pc[q] = "off"
  BY DEF Ids, TypeOK, End, Goto
<1>4. Fresh'
  BY <1>2, <1>3 DEF Ids, Fresh
<1>5. Numbered'
  <2> SUFFICES ASSUME NEW q \in Procs, accepted'[q] # <<>>
               PROVE  accepted'[q] = accepted[q] /\ counter'[q] = counter[q]
    BY <1>1 DEF Ids, Numbered
  <2> QED BY <1>2
<1> QED BY <1>4, <1>5

LEMMA GotoIds ==
  ASSUME Ids, NEW p \in Procs, NEW l, l # "off", Goto(p, l), UNCHANGED ids
  PROVE  (Fresh /\ Numbered)'
BY DEF Ids, TypeOK, Fresh, Numbered, Goto, ids

LEMMA AcceptIds ==
  ASSUME Ids, NEW p \in Procs, NEW sec \in Seconds, AcceptSub(p, sec)
  PROVE  (Fresh /\ Numbered)'
<1> DEFINE count == counter[p] + 1
           new   == [id |-> ObjectId(sec, count), count |-> count]
           Subs  == [id : Seconds \X (0..MaxSeq - 1), count : Nat]
<1>1. accepted[p] \in Seq(Subs) /\ count \in Nat /\ counter[p] \in Nat
  <2>1. accepted \in [Procs -> Seq(Subs)] /\ counter \in [Procs -> Nat]
    BY DEF Ids, TypeOK
  <2> HIDE DEF Subs
  <2> QED BY <2>1
<1>2. /\ pc[p] = "loop" /\ pc' = pc
      /\ counter' = [counter EXCEPT ![p] = count]
      /\ accepted' = [accepted EXCEPT ![p] = Append(@, new)]
  BY DEF AcceptSub
<1>3. new.count = count /\ new.id[2] = IF count >= MaxSeq THEN 0 ELSE count
  BY <1>1 DEF ObjectId
<1> HIDE DEF new, Subs
<1>4. Fresh'
  BY <1>2 DEF Ids, TypeOK, Fresh
<1>5. ASSUME NEW q \in Procs, NEW i \in DOMAIN accepted'[q]
      PROVE  /\ accepted'[q][i].count \in 1..counter'[q]
             /\ accepted'[q][i].id[2] = IF accepted'[q][i].count >= MaxSeq
                                          THEN 0 ELSE accepted'[q][i].count
             /\ \A j \in DOMAIN accepted'[q] :
                  i < j => accepted'[q][i].count < accepted'[q][j].count
  <2>1. CASE q # p
    <3>1. accepted'[q] = accepted[q] /\ counter'[q] = counter[q]
      BY <1>2, <2>1 DEF Ids, TypeOK
    <3> QED BY <1>5, <3>1 DEF Ids, Numbered
  <2>2. CASE q = p
    <3>1. accepted'[p] = Append(accepted[p], new) /\ counter'[p] = count
      BY <1>2 DEF Ids, TypeOK
    <3>2. /\ DOMAIN accepted[p] = 1..Len(accepted[p])
          /\ DOMAIN accepted'[p] = 1..Len(accepted[p]) + 1
          /\ Len(accepted[p]) \in Nat
      BY <1>1, <3>1
    <3>3. /\ \A k \in 1..Len(accepted[p]) : accepted'[p][k] = accepted[p][k]
          /\ accepted'[p][Len(accepted[p]) + 1] = new
      BY <1>1, <3>1
    <3>4. \A k \in 1..Len(accepted[p]) :
            /\ accepted[p][k].count \in 1..counter[p]
            /\ accepted[p][k].id[2] = IF accepted[p][k].count >= MaxSeq
                                        THEN 0 ELSE accepted[p][k].count
            /\ \A j \in 1..Len(accepted[p]) :
                 k < j => accepted[p][k].count < accepted[p][j].count
      BY <3>2 DEF Ids, Numbered
    <3>5. CASE i = Len(accepted[p]) + 1
      BY <1>1, <1>3, <2>2, <3>1, <3>2, <3>3, <3>5
    <3>6. CASE i \in 1..Len(accepted[p])
      <4>1. accepted'[p][i] = accepted[p][i] /\ accepted[p][i].count \in 1..counter[p]
        BY <3>3, <3>4, <3>6
      <4>2. ASSUME NEW j \in DOMAIN accepted'[p], i < j
            PROVE  accepted'[p][i].count < accepted'[p][j].count
        <5>1. CASE j = Len(accepted[p]) + 1
          BY <1>1, <1>3, <3>3, <4>1, <5>1
        <5>2. CASE j \in 1..Len(accepted[p])
          BY <3>3, <3>4, <3>6, <4>2, <5>2
        <5> QED BY <3>2, <4>2, <5>1, <5>2
      <4> QED BY <1>1, <2>2, <3>1, <3>4, <3>6, <4>1, <4>2
    <3> QED BY <1>5, <2>2, <3>2, <3>5, <3>6
  <2> QED BY <2>1, <2>2
<1>6. Numbered'
  BY <1>5 DEF Numbered
<1> QED BY <1>4, <1>6

LEMMA NextIds ==
  ASSUME Ids, [Next]_vars
  PROVE  (Fresh /\ Numbered)'
<1>1. ASSUME NEW p \in Procs, Start(p) PROVE (Fresh /\ Numbered)'
  <2>1. CASE End(p)
    BY <1>1, <2>1, EndIds DEF Start
  <2>2. CASE ~End(p)
    <3>1. PICK n : counter' = [counter EXCEPT ![p] = n]
      BY <1>1, <2>2 DEF Start
    <3>2. pc[p] = "off" /\ Goto(p, "config") /\ UNCHANGED accepted
      BY <1>1, <2>2 DEF Start
    <3>3. DOMAIN accepted[p] = {}
      BY <3>2 DEF Ids, Fresh
    <3>4. \A q \in Procs : q = p \/ counter'[q] = counter[q]
      BY <3>1 DEF Ids, TypeOK
    <3>5. Numbered'
      BY <3>2, <3>3, <3>4 DEF Ids, Numbered
    <3> QED BY <3>2, <3>5 DEF Ids, TypeOK, Fresh, Goto
  <2> QED BY <2>1, <2>2
<1>2. ASSUME NEW p \in Procs, NEW file \in ConfigFiles, LoadConfig(p, file)
      PROVE (Fresh /\ Numbered)'
  BY <1>2, EndIds, GotoIds DEF LoadConfig
<1>3. ASSUME NEW p \in Procs, OpenLog(p) PROVE (Fresh /\ Numbered)'
  BY <1>3, EndIds, GotoIds DEF OpenLog
<1>4. ASSUME NEW p \in Procs, OpenPid(p) PROVE (Fresh /\ Numbered)'
  BY <1>4, EndIds, GotoIds DEF OpenPid
<1>5. ASSUME NEW p \in Procs, WritePid(p) PROVE (Fresh /\ Numbered)'
  BY <1>5, GotoIds DEF WritePid
<1>6. ASSUME NEW p \in Procs, NEW side \in Sides, Bind(p, side) PROVE (Fresh /\ Numbered)'
  BY <1>6, EndIds, GotoIds DEF Bind, AtListen
<1>7. ASSUME NEW p \in Procs, NEW side \in Sides, Listen(p, side) PROVE (Fresh /\ Numbered)'
  BY <1>7, EndIds, GotoIds DEF Listen, Opened
<1>8. ASSUME NEW p \in Procs, NEW sec \in Seconds, AcceptSub(p, sec) PROVE (Fresh /\ Numbered)'
  BY <1>8, AcceptIds
<1>9. ASSUME NEW p \in Procs, Kill(p) PROVE (Fresh /\ Numbered)'
  BY <1>9, EndIds DEF Kill
<1>10. CASE UNCHANGED vars
  BY <1>10 DEF vars, ids, Ids, Fresh, Numbered
<1> QED BY <1>1, <1>2, <1>3, <1>4, <1>5, <1>6, <1>7, <1>8, <1>9, <1>10 DEF Next

(* Up to 2^24 subscribers no two of a process have the same id, whatever   *)
(* the clock says and wherever the counter started.                        *)
THEOREM IdsGivenOnce == Spec => []IdsDistinct
<1>1. Init => Ids
  BY InitTypeOK DEF Init, Ids, Fresh, Numbered
<1>2. Ids /\ [Next]_vars => Ids'
  BY NextTypeOK, NextIds DEF Ids
<1>3. Ids => IdsDistinct
  <2> SUFFICES ASSUME Ids, NEW p \in Procs, NEW i \in DOMAIN accepted[p],
                      NEW j \in DOMAIN accepted[p], i # j,
                      accepted[p][i].id = accepted[p][j].id
               PROVE  accepted[p][i].count >= MaxSeq /\ accepted[p][j].count >= MaxSeq
    BY DEF IdsDistinct
  <2>1. /\ accepted[p][i].count \in Nat \ {0} /\ accepted[p][j].count \in Nat \ {0}
        /\ i \in Nat /\ j \in Nat
    BY SMTT(30) DEF Ids, TypeOK, Numbered
  <2>2. accepted[p][i].count # accepted[p][j].count
    <3>1. i < j \/ j < i
      BY <2>1
    <3> QED BY <2>1, <3>1 DEF Ids, Numbered
  <2>3. accepted[p][i].id[2] = accepted[p][j].id[2]
    OBVIOUS
  <2> QED BY <2>1, <2>2, <2>3, SeqAssumption DEF Ids, Numbered
<1> QED BY <1>1, <1>2, <1>3, PTL DEF Spec

-----------------------------------------------------------------------------
(* The table of subscribers.  That every id given is in it makes the first *)
(* holder of an id the only one that was ever inserted under it.           *)

Firsts(p) ==
  {i \in DOMAIN accepted[p] : \A k \in 1..i - 1 : accepted[p][k].id # accepted[p][i].id}

Listed ==
  \A p \in Procs : \A i \in DOMAIN accepted[p] :
    \E e \in table[p] : e.id = accepted[p][i].id

Tabled == TypeOK /\ TableKeepsFirst /\ Listed

LEMMA EndTable ==
  ASSUME Tabled, NEW p \in Procs, End(p)
  PROVE  (TableKeepsFirst /\ Listed)'
<1>1. \A q \in Procs : \/ accepted'[q] = accepted[q] /\ table'[q] = table[q]
                       \/ accepted'[q] = <<>> /\ table'[q] = {}
  BY DEF Tabled, TypeOK, End
<1>2. DOMAIN << >> = {}
  OBVIOUS
<1> SUFFICES ASSUME NEW q \in Procs
             PROVE  /\ table'[q] = {[id |-> accepted'[q][i].id, client |-> i] :
                          i \in {j \in DOMAIN accepted'[q] :
                             \A k \in 1..j - 1 : accepted'[q][k].id # accepted'[q][j].id}}
                    /\ \A i \in DOMAIN accepted'[q] :
                         \E e \in table'[q] : e.id = accepted'[q][i].id
  BY DEF TableKeepsFirst, Listed
<1>3. CASE accepted'[q] = accepted[q] /\ table'[q] = table[q]
  BY <1>3 DEF Tabled, TableKeepsFirst, Listed
<1>4. CASE accepted'[q] = <<>> /\ table'[q] = {}
  BY <1>2, <1>4
<1> QED BY <1>1, <1>3, <1>4

LEMMA KeptTable ==
  ASSUME Tabled, UNCHANGED <<accepted, table>>
  PROVE  (TableKeepsFirst /\ Listed)'
BY DEF Tabled, TableKeepsFirst, Listed

LEMMA AcceptTable ==
  ASSUME Tabled, NEW p \in Procs, NEW sec \in Seconds, AcceptSub(p, sec)
  PROVE  (TableKeepsFirst /\ Listed)'
<1> DEFINE count == counter[p] + 1
           theId == ObjectId(sec, count)
           new   == [id |-> theId, count |-> count]
           Subs  == [id : Seconds \X (0..MaxSeq - 1), count : Nat]
           last  == Len(accepted[p]) + 1
           entry == [id |-> theId, client |-> last]
<1>1. accepted[p] \in Seq(Subs)
  <2>1. accepted \in [Procs -> Seq(Subs)]
    BY DEF Tabled, TypeOK
  <2> HIDE DEF Subs
  <2> QED BY <2>1
<1>2. /\ accepted' = [accepted EXCEPT ![p] = Append(@, new)]
      /\ table' = [table EXCEPT ![p] = Insert(@, theId, last)]
  BY DEF AcceptSub
<1>3. /\ new.id = theId /\ entry.id = theId
      /\ entry = [id |-> theId, client |-> last]
  OBVIOUS
<1> HIDE DEF count, theId, new, Subs, entry
<1>4. \A q \in Procs : q # p => accepted'[q] = accepted[q] /\ table'[q] = table[q]
  BY <1>2 DEF Tabled, TypeOK
<1>5. /\ accepted'[p] = Append(accepted[p], new)
      /\ table'[p] = IF \E e \in table[p] : e.id = theId THEN table[p] ELSE table[p] \cup {entry}
  BY <1>2, <1>3 DEF Tabled, TypeOK, Insert
<1>6. /\ DOMAIN accepted[p] = 1..Len(accepted[p])
      /\ DOMAIN accepted'[p] = 1..last
      /\ Len(accepted[p]) \in Nat
      /\ \A k \in 1..Len(accepted[p]) : accepted'[p][k] = accepted[p][k]
      /\ accepted'[p][last] = new
  BY <1>1, <1>5
<1>7. table[p] = {[id |-> accepted[p][i].id, client |-> i] : i \in Firsts(p)}
  BY DEF Tabled, TableKeepsFirst, Firsts
<1>8. (\E e \in table[p] : e.id = theId)
        <=> \E k \in 1..Len(accepted[p]) : accepted[p][k].id = theId
  <2>1. ASSUME NEW e \in table[p], e.id = theId
        PROVE  \E k \in 1..Len(accepted[p]) : accepted[p][k].id = theId
    <3>1. PICK i \in Firsts(p) : e = [id |-> accepted[p][i].id, client |-> i]
      BY <1>7
    <3>2. i \in 1..Len(accepted[p]) /\ accepted[p][i].id = theId
      BY <1>6, <2>1, <3>1 DEF Firsts
    <3> QED BY <3>2
  <2>2. ASSUME NEW k \in 1..Len(accepted[p]), accepted[p][k].id = theId
        PROVE  \E e \in table[p] : e.id = theId
    BY <1>6, <2>2 DEF Tabled, Listed
  <2> QED BY <2>1, <2>2
<1> HIDE DEF last
<1>9. last = Len(accepted[p]) + 1
  BY DEF last
<1>10. ASSUME NEW i \in 1..Len(accepted[p]) PROVE i \in Firsts(p)' <=> i \in Firsts(p)
  <2>1. i \in DOMAIN accepted[p] /\ i \in DOMAIN accepted'[p]
    BY <1>6, <1>9
  <2>2. accepted'[p][i] = accepted[p][i]
    BY <1>6
  <2>3. \A k \in 1..i - 1 : accepted'[p][k] = accepted[p][k]
    BY <1>6
  <2> QED BY <2>1, <2>2, <2>3 DEF Firsts
<1>11. last \in Firsts(p)' <=> ~\E e \in table[p] : e.id = theId
  <2>1. last \in DOMAIN accepted'[p] /\ 1..last - 1 = 1..Len(accepted[p])
    BY <1>6, <1>9
  <2>2. \A k \in 1..last - 1 : accepted'[p][k] = accepted[p][k]
    BY <1>6, <2>1
  <2>3. accepted'[p][last].id = theId
    BY <1>3, <1>6
  <2>4. last \in Firsts(p)' <=> \A k \in 1..last - 1 : accepted[p][k].id # theId
    BY <2>1, <2>2, <2>3 DEF Firsts
  <2> QED BY <1>8, <2>1, <2>4
<1>12. Firsts(p)' = IF \E e \in table[p] : e.id = theId
                      THEN Firsts(p) ELSE Firsts(p) \cup {last}
  <2>1. Firsts(p) \subseteq 1..Len(accepted[p]) /\ Firsts(p)' \subseteq 1..last
    BY <1>6 DEF Firsts
  <2>2. 1..last = 1..Len(accepted[p]) \cup {last} /\ last \notin 1..Len(accepted[p])
    BY <1>6, <1>9
  <2>3. CASE \E e \in table[p] : e.id = theId
    <3>1. Firsts(p)' = Firsts(p)
      BY <1>10, <1>11, <2>1, <2>2, <2>3
    <3> QED BY <2>3, <3>1
  <2>4. CASE ~\E e \in table[p] : e.id = theId
    <3>1. Firsts(p)' = Firsts(p) \cup {last}
      BY <1>10, <1>11, <2>1, <2>2, <2>4
    <3> QED BY <2>4, <3>1
  <2> QED BY <2>3, <2>4
<1>13. table'[p] = {[id |-> accepted'[p][i].id, client |-> i] : i \in Firsts(p)'}
  <2>1. \A i \in Firsts(p) : accepted'[p][i] = accepted[p][i]
    BY <1>6 DEF Firsts
  <2>2. table[p] = {[id |-> accepted'[p][i].id, client |-> i] : i \in Firsts(p)}
    BY <1>7, <2>1
  <2>3. entry = [id |-> accepted'[p][last].id, client |-> last]
    BY <1>3, <1>6
  <2> QED BY <1>5, <1>12, <2>2, <2>3
<1>14. TableKeepsFirst'
  BY <1>4, <1>13 DEF Tabled, TableKeepsFirst, Firsts
<1>15. ASSUME NEW i \in DOMAIN accepted'[p]
       PROVE  \E e \in table'[p] : e.id = accepted'[p][i].id
  <2>1. CASE i = last
    BY <1>3, <1>5, <1>6, <2>1
  <2>2. CASE i \in 1..Len(accepted[p])
    <3>1. PICK e \in table[p] : e.id = accepted[p][i].id
      BY <1>6, <2>2 DEF Tabled, Listed
    <3> QED BY <1>5, <1>6, <2>2, <3>1
  <2> QED BY <1>6, <1>9, <1>15, <2>1, <2>2
<1>16. Listed'
  BY <1>4, <1>15 DEF Tabled, Listed
<1> QED BY <1>14, <1>16

(* subcli_table leads from every id given to the first subscriber that was *)
(* given it and to no other, after any number of subscribers.              *)
THEOREM FirstKept == Spec => []TableKeepsFirst
<1>1. Init => Tabled
  <2>1. DOMAIN << >> = {}
    OBVIOUS
  <2> QED BY <2>1, InitTypeOK DEF Init, Tabled, TableKeepsFirst, Listed
<1>2. ASSUME Tabled, [Next]_vars PROVE (TableKeepsFirst /\ Listed)'
  <2> USE DEF ids
  <2>1. ASSUME NEW p \in Procs, Start(p) PROVE (TableKeepsFirst /\ Listed)'
    BY <1>2, <2>1, EndTable, KeptTable DEF Start
  <2>2. ASSUME NEW p \in Procs, NEW file \in ConfigFiles, LoadConfig(p, file)
        PROVE (TableKeepsFirst /\ Listed)'
    BY <1>2, <2>2, EndTable, KeptTable DEF LoadConfig
  <2>3. ASSUME NEW p \in Procs, OpenLog(p) PROVE (TableKeepsFirst /\ Listed)'
    BY <1>2, <2>3, EndTable, KeptTable DEF OpenLog
  <2>4. ASSUME NEW p \in Procs, OpenPid(p) PROVE (TableKeepsFirst /\ Listed)'
    BY <1>2, <2>4, EndTable, KeptTable DEF OpenPid
  <2>5. ASSUME NEW p \in Procs, WritePid(p) PROVE (TableKeepsFirst /\ Listed)'
    BY <1>2, <2>5, KeptTable DEF WritePid
  <2>6. ASSUME NEW p \in Procs, NEW side \in Sides, Bind(p, side)
        PROVE (TableKeepsFirst /\ Listed)'
    BY <1>2, <2>6, EndTable, KeptTable DEF Bind
  <2>7. ASSUME NEW p \in Procs, NEW side \in Sides, Listen(p, side)
        PROVE (TableKeepsFirst /\ Listed)'
    BY <1>2, <2>7, EndTable, KeptTable DEF Listen
  <2>8. ASSUME NEW p \in Procs, NEW sec \in Seconds, AcceptSub(p, sec)
        PROVE (TableKeepsFirst /\ Listed)'
    BY <1>2, <2>8, AcceptTable
  <2>9. ASSUME NEW p \in Procs, Kill(p) PROVE (TableKeepsFirst /\ Listed)'
    BY <1>2, <2>9, EndTable DEF Kill
  <2>10. CASE UNCHANGED vars
    BY <1>2, <2>10, KeptTable DEF vars
  <2> QED BY <1>2, <2>1, <2>2, <2>3, <2>4, <2>5, <2>6, <2>7, <2>8, <2>9, <2>10 DEF Next
<1>3. Tabled /\ [Next]_vars => Tabled'
  BY <1>2, NextTypeOK DEF Tabled
<1>4. Tabled => TableKeepsFirst
  BY DEF Tabled
<1> QED BY <1>1, <1>3, <1>4, PTL DEF Spec

=============================================================================
