---------------------------- MODULE ServerProcess ----------------------------
(***************************************************************************)
(* Broker processes on one host, from main() to the event loop: the        *)
(* configuration file, the log file, the pid file and the two listening    *)
(* sockets, which processes started side by side or one after the other    *)
(* share; and the ids a running process gives its subscribers.             *)
(*                                                                         *)
(* A process that is in its loop never leaves it but by being killed: no   *)
(* code stops the loop, so server_free is not reached.                     *)
(***************************************************************************)
EXTENDS Integers, Sequences, FiniteSetsExt

CONSTANTS
  Procs,         \* the processes, each standing for its pid as well
  ConfigFiles,   \* what a process may find in its configuration file
  AnyIp,         \* "0.0.0.0"
  BadIps,        \* addresses getaddrinfo refuses
  BadPaths,      \* paths fopen refuses
  Defaults,      \* the settings of server_config_init
  MaxSeq,        \* 2^24, the ids' counters
  Seconds,       \* what gettimeofday may answer
  MaxClients,    \* bound on the subscribers of all processes
  NoFile, NotJson, NULL

Sides   == {"pub", "sub"}
Strings == {"pub_ip", "sub_ip", "log_file", "pid_file"}
Ints    == {"pub_port", "sub_port"}

(* The file's items are cJSON's: a number has no valuestring, a string's   *)
(* valueint is 0.                                                          *)
ASSUME SeqAssumption == MaxSeq \in Nat \ {0}
ASSUME DefaultsAssumption == DOMAIN Defaults = Strings \cup Ints
ASSUME ConfigAssumption ==
  \A f \in ConfigFiles \ {NoFile, NotJson} : DOMAIN f \subseteq Strings \cup Ints

VARIABLES
  pc,          \* where main() is
  server,      \* the settings
  listening,   \* sides whose socket listens
  pid_file,    \* pid_file[path]: the process it names, NULL if none
  counter,     \* sub_inc_counter
  accepted,    \* history: the subscribers, as their ids and counts
  table,       \* subcli_table: entries [id, client]
  killed,      \* history: processes killed from outside
  opened,      \* history: processes that got as far as the sockets
  contended,   \* history: processes that met another with their pid file
  unwritten    \* history: processes whose pid the disk did not take

files == <<pid_file, contended, unwritten>>
ids   == <<counter, accepted, table>>
vars  == <<pc, server, listening, files, ids, killed, opened>>

Paths == {Defaults.pid_file} \cup
         {f.pid_file.valuestring : f \in
            {g \in ConfigFiles \ {NoFile, NotJson} : "pid_file" \in DOMAIN g}}

Init ==
  /\ pc = [p \in Procs |-> "off"]
  /\ server = [p \in Procs |-> Defaults]
  /\ listening = [p \in Procs |-> {}]
  /\ pid_file = [path \in Paths |-> NULL]
  /\ counter = [p \in Procs |-> 0]
  /\ accepted = [p \in Procs |-> <<>>]
  /\ table = [p \in Procs |-> {}]
  /\ killed = {}
  /\ opened = {}
  /\ contended = {}
  /\ unwritten = {}

Goto(p, l) == pc' = [pc EXCEPT ![p] = l]

(* Exits, crashes and kills all leave the kernel to close the sockets and  *)
(* to take the memory; the pid file stays.                                 *)
End(p) ==
  /\ Goto(p, "dead")
  /\ listening' = [listening EXCEPT ![p] = {}]
  /\ counter' = [counter EXCEPT ![p] = 0]
  /\ accepted' = [accepted EXCEPT ![p] = <<>>]
  /\ table' = [table EXCEPT ![p] = {}]

-----------------------------------------------------------------------------
(* rand_int64(n), for an n below RAND_MAX. *)
RandInt64(n) == 0..n - 1

(* server_config_init, then getopt: -h and unknown options exit.           *)
Start(p) ==
  /\ pc[p] = "off"
  /\ \/ /\ \E n \in RandInt64(MaxSeq) : counter' = [counter EXCEPT ![p] = n]
        /\ Goto(p, "config")
        /\ UNCHANGED <<listening, accepted, table>>
     \/ End(p)
  /\ UNCHANGED <<server, files, killed, opened>>

(* An item's value for a key of the file, the default without one.         *)
Items(file) == IF file = NoFile THEN <<>> ELSE file

Setting(file, key) ==
  IF key \notin DOMAIN Items(file) THEN Defaults[key]
  ELSE IF key \in Strings THEN file[key].valuestring ELSE file[key].valueint

(* srv_load_cfg: a missing file is no error, but strdup(NULL) crashes.     *)
Unusable(file) == file = NotJson \/ \E key \in Strings : Setting(file, key) = NULL

LoadConfig(p, file) ==
  /\ pc[p] = "config"
  /\ IF Unusable(file)
       THEN End(p) /\ UNCHANGED server
       ELSE /\ server' = [server EXCEPT ![p] = [key \in DOMAIN Defaults |-> Setting(file, key)]]
            /\ Goto(p, "log")
            /\ UNCHANGED <<listening, ids>>
  /\ UNCHANGED <<files, killed, opened>>

OpenLog(p) ==
  /\ pc[p] = "log"
  /\ IF server[p].log_file \in BadPaths
       THEN End(p)
       ELSE Goto(p, "pid") /\ UNCHANGED <<listening, ids>>
  /\ UNCHANGED <<server, files, killed, opened>>

(* fopen with "w" empties the file; the pid reaches it at fclose.          *)
Users(path) ==
  {p \in Procs : server[p].pid_file = path
                 /\ pc[p] \notin {"off", "config", "log", "pid", "dead"}}

OpenPidKeeps(p) ==           \* mutant: opened with "a"
  LET path == server[p].pid_file IN
  /\ pc[p] = "pid" /\ path \notin BadPaths
  /\ Goto(p, IF pid_file[path] = NULL THEN "pid_write" ELSE "pub_bind")
  /\ contended' = contended \cup
       (IF Users(path) # {} THEN Users(path) \cup {p} ELSE {})
  /\ UNCHANGED <<listening, pid_file, unwritten, server, ids, killed, opened>>

OpenPid(p) ==
  LET path == server[p].pid_file IN
  /\ pc[p] = "pid"
  /\ IF path \in BadPaths
       THEN End(p) /\ UNCHANGED files
       ELSE /\ Goto(p, "pid_write")
            /\ pid_file' = [pid_file EXCEPT ![path] = NULL]
            /\ contended' = contended \cup
                 (IF Users(path) # {} THEN Users(path) \cup {p} ELSE {})
            /\ UNCHANGED <<listening, unwritten, ids>>
  /\ UNCHANGED <<server, killed, opened>>

(* Neither fprintf's result is looked at nor that of fclose: on a full disk *)
(* the file stays empty and the broker goes on.                            *)
WritePid(p) ==
  /\ pc[p] = "pid_write"
  /\ \/ /\ pid_file' = [pid_file EXCEPT ![server[p].pid_file] = p]
        /\ UNCHANGED unwritten
     \/ /\ unwritten' = unwritten \cup {p}
        /\ UNCHANGED pid_file
  /\ Goto(p, "pub_bind")
  /\ opened' = opened \cup {p}
  /\ UNCHANGED <<server, listening, contended, ids, killed>>

-----------------------------------------------------------------------------
(* net_tcp_server, for the publishers' socket and then the subscribers'.   *)

(* snprintf(_port, 6, "%d", port) keeps five digits, of which getaddrinfo  *)
(* takes the value in 16 bits.                                             *)
FiveDigits == 99999
PortMax    == 65535

PortOfFour(n) ==             \* mutant: char _port[5]
  Max({n \div i : i \in {1, 10, 100, 1000, 10000, 100000}} \cap 0..9999)

PortOf(n) ==
  Max({n \div i : i \in {1, 10, 100, 1000, 10000, 100000}} \cap 0..FiveDigits)
    % (PortMax + 1)

Address(p, side) ==
  IF side = "pub" THEN [ip |-> server[p].pub_ip, port |-> PortOf(server[p].pub_port)]
                  ELSE [ip |-> server[p].sub_ip, port |-> PortOf(server[p].sub_port)]

Overlap(a, b) ==
  /\ a.port = b.port /\ a.port # 0
  /\ a.ip = b.ip \/ AnyIp \in {a.ip, b.ip}

(* The sockets that listen on an address of p's side, its own included.    *)
Rivals(p, side) ==
  {r \in Procs \X Sides : /\ r[2] \in listening[r[1]]
                          /\ Overlap(Address(r[1], r[2]), Address(p, side))}

(* SO_REUSEADDR is set: sockets that are bound and do not listen yet do not *)
(* keep bind from an address, nor do connections in TIME_WAIT, which are   *)
(* left out for that.                                                      *)
MayBind(p, side) == Rivals(p, side) = {}

AtBind(side)   == IF side = "pub" THEN "pub_bind" ELSE "sub_bind"
AtListen(side) == IF side = "pub" THEN "pub_listen" ELSE "sub_listen"
Opened(side)   == IF side = "pub" THEN "sub_bind" ELSE "loop"

Bind(p, side) ==
  /\ pc[p] = AtBind(side)
  /\ IF Address(p, side).ip \notin BadIps /\ MayBind(p, side)
       THEN Goto(p, AtListen(side)) /\ UNCHANGED <<listening, ids>>
       ELSE End(p)
  /\ UNCHANGED <<server, files, killed, opened>>

ListenUnchecked(p, side) ==  \* mutant: listen's result is ignored
  /\ pc[p] = AtListen(side)
  /\ listening' = IF Rivals(p, side) = {}
                    THEN [listening EXCEPT ![p] = @ \cup {side}] ELSE listening
  /\ Goto(p, Opened(side))
  /\ UNCHANGED <<server, files, ids, killed, opened>>

(* Of two sockets bound to one address only one gets to listen.            *)
Listen(p, side) ==
  /\ pc[p] = AtListen(side)
  /\ IF Rivals(p, side) = {}
       THEN /\ listening' = [listening EXCEPT ![p] = @ \cup {side}]
            /\ Goto(p, Opened(side))
            /\ UNCHANGED ids
       ELSE End(p)
  /\ UNCHANGED <<server, files, killed, opened>>

-----------------------------------------------------------------------------
(* create_objectid's text of second, pid and counter; only the first and   *)
(* the last differ within a process.                                       *)
ObjectIdWide(sec, seq) ==    \* mutant: seq > 1 << 24
  <<sec, IF seq < 0 \/ seq > MaxSeq THEN 0 ELSE seq>>

ObjectIdFolded(sec, seq) ==  \* mutant: the last counter for all that follow
  <<sec, IF seq < 0 \/ seq >= MaxSeq THEN MaxSeq - 1 ELSE seq>>

ObjectId(sec, seq) == <<sec, IF seq < 0 \/ seq >= MaxSeq THEN 0 ELSE seq>>

(* ght_insert refuses a key that is in the table; its result is ignored.   *)
InsertReplaces(t, id, client) ==   \* mutant
  {e \in t : e.id # id} \cup {[id |-> id, client |-> client]}

Insert(t, id, client) ==
  IF \E e \in t : e.id = id THEN t ELSE t \cup {[id |-> id, client |-> client]}

AcceptSub(p, sec) ==
  LET count  == counter[p] + 1
      id     == ObjectId(sec, count)
      client == Len(accepted[p]) + 1
  IN
  /\ pc[p] = "loop"
  /\ FoldFunction(LAMBDA s, n : Len(s) + n, 0, accepted) < MaxClients
  /\ counter' = [counter EXCEPT ![p] = count]
  /\ accepted' = [accepted EXCEPT ![p] = Append(@, [id |-> id, count |-> count])]
  /\ table' = [table EXCEPT ![p] = Insert(@, id, client)]
  /\ UNCHANGED <<pc, server, listening, files, killed, opened>>

(* A signal or a crash at any point. *)
Kill(p) ==
  /\ pc[p] \notin {"off", "dead"}
  /\ End(p)
  /\ killed' = killed \cup {p}
  /\ UNCHANGED <<server, files, opened>>

Next ==
  \E p \in Procs :
    \/ Start(p)
    \/ \E file \in ConfigFiles : LoadConfig(p, file)
    \/ OpenLog(p)
    \/ OpenPid(p)
    \/ WritePid(p)
    \/ \E side \in Sides : Bind(p, side) \/ Listen(p, side)
    \/ \E sec \in Seconds : AcceptSub(p, sec)
    \/ Kill(p)

Spec == Init /\ [][Next]_vars

-----------------------------------------------------------------------------
Labels == {"off", "config", "log", "pid", "pid_write", "pub_bind", "pub_listen",
           "sub_bind", "sub_listen", "loop", "dead"}

TypeOK ==
  /\ pc \in [Procs -> Labels]
  /\ DOMAIN server = Procs
  /\ listening \in [Procs -> SUBSET Sides]
  /\ pid_file \in [Paths -> Procs \cup {NULL}]
  /\ counter \in [Procs -> Nat]
  /\ accepted \in [Procs -> Seq([id : Seconds \X (0..MaxSeq - 1), count : Nat])]
  /\ table \in [Procs -> SUBSET [id : Seconds \X (0..MaxSeq - 1), client : Nat \ {0}]]
  /\ killed \subseteq Procs /\ opened \subseteq Procs
  /\ contended \subseteq Procs /\ unwritten \subseteq Procs

(***************************************************************************)
(* A broker in its loop serves publishers and subscribers: it never goes   *)
(* on with a socket another process got, whatever the order in which they  *)
(* bound and listened, and nobody listens on its addresses beside it.      *)
(***************************************************************************)
LoopServes ==
  \A p \in Procs : pc[p] = "loop" =>
    \A side \in Sides : Rivals(p, side) \cup {<<p, side>>} = {<<p, side>>}
                        /\ side \in listening[p]

SameAddresses ==
  \A p, q \in opened :
    /\ server[p].pub_port = server[q].pub_port /\ server[p].pub_ip = server[q].pub_ip
    /\ server[p].sub_port = server[q].sub_port /\ server[p].sub_ip = server[q].sub_ip
    /\ server[p].pub_port # server[p].sub_port
    /\ {server[p].pub_port, server[p].sub_port} \subseteq 0..PortMax
    /\ {server[p].pub_ip, server[p].sub_ip} \cap BadIps = {}

(***************************************************************************)
(* Started side by side with the same two addresses, brokers do not refuse *)
(* each other all: the publishers' socket is opened first by every one of  *)
(* them, so whoever gets it gets the other, too.  (With the two ports      *)
(* exchanged in one of the files they may all exit.)                       *)
(***************************************************************************)
OneSurvives ==
  opened # {} /\ killed = {} /\ SameAddresses => \E p \in opened : pc[p] # "dead"

(***************************************************************************)
(* The pid file of a broker in its loop names it, whatever an earlier      *)
(* broker left in it and wherever that one died, unless another process    *)
(* opened the file while this one was alive - even one that is then        *)
(* refused the port leaves its own pid there - or the disk did not take    *)
(* the pid.                                                                *)
(***************************************************************************)
PidFileNames ==
  \A p \in Procs \ (contended \cup unwritten) :
    pc[p] = "loop" => pid_file[server[p].pid_file] = p

(***************************************************************************)
(* Two subscribers of a process share an id only beyond 2^24, when the id  *)
(* has no counter any more, and within one second, whatever the clock does. *)
(***************************************************************************)
IdsDistinct ==
  \A p \in Procs : \A i, j \in DOMAIN accepted[p] :
    i # j /\ accepted[p][i].id = accepted[p][j].id =>
      accepted[p][i].count >= MaxSeq /\ accepted[p][j].count >= MaxSeq

(***************************************************************************)
(* subcli_table leads from every id given to the first subscriber that was *)
(* given it, and to no other; broker.h: "mapping from subscibe-client id   *)
(* to the subscribe-client".                                               *)
(***************************************************************************)
TableKeepsFirst ==
  \A p \in Procs :
    table[p] = {[id |-> accepted[p][i].id, client |-> i] :
                  i \in {j \in DOMAIN accepted[p] :
                           \A k \in 1..j - 1 : accepted[p][k].id # accepted[p][j].id}}

=============================================================================
