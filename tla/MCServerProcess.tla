-------------------------- MODULE MCServerProcess ---------------------------
(* Finite instance of ServerProcess: three brokers, started at once or one *)
(* after the other.  The files: one with the publishers' port where the    *)
(* default has the subscribers', one with ports of five digits and the     *)
(* default pid file, and one for every way to fail before the sockets.     *)
EXTENDS ServerProcess, TLC

CONSTANTS p1, p2, p3

MCProcs == {p1, p2, p3}

Str(s) == [valuestring |-> s, valueint |-> 0]
Num(n) == [valuestring |-> NULL, valueint |-> n]

MCDefaults ==
  [pub_ip |-> AnyIp, sub_ip |-> AnyIp, pub_port |-> 5561, sub_port |-> 5562,
   log_file |-> "broker.log", pid_file |-> "broker.pid"]

MCFiles ==
  {NoFile, NotJson,
   [pub_port |-> Num(5562), sub_port |-> Num(5561), pid_file |-> Str("other.pid")],
   [pub_port |-> Num(55610), sub_port |-> Num(55611), sub_ip |-> Str("127.0.0.1")],
   [log_file |-> Num(1)],
   [pub_ip |-> Str("nowhere")], [log_file |-> Str("/")], [pid_file |-> Str("/")]}

MCSymmetry == Permutations(MCProcs)
=============================================================================
