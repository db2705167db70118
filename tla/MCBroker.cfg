CONSTANTS
  f1 = f1
  f2 = f2
  f3 = f3
  f4 = f4
  a1 = a1
  a2 = a2
  n = n
  net = net
  n_x = n_x
  n_t = n_t
  m1 = m1
  m2 = m2
  NoFd = NoFd
  NoAddr = NoAddr
  NoMsg = NoMsg
  Fds <- MCFds
  Addrs <- MCAddrs
  Topics <- MCTopics
  KeyOf <- MCKeyOf
  Storable <- MCStorable
  Msgs <- MCMsgs
  Size <- MCSize
  PrefixesOf <- MCPrefixesOf
  Requests <- MCRequests
  WbufLen = 1
SYMMETRY MCSymmetry
SPECIFICATION Spec
INVARIANTS TypeOK RegistryAgrees RegistryHonest WatchedForReplies SafeUntilDeparture
PROPERTY OwnedByFirst
CHECK_DEADLOCK FALSE
