CONSTANTS
  f1 = f1
  f2 = f2
  a1 = a1
  n = n
  net = net
  n_x = n_x
  n_t = n_t
  m1 = m1
  m2 = m2
  f3 = f3
  f4 = f4
  a2 = a2
  NoFd = NoFd
  NoAddr = NoAddr
  NoMsg = NoMsg
  Fds <- MCTwoFds
  Addrs <- MCAddrs
  Topics <- MCTopics
  KeyOf <- MCKeyOf
  Storable <- MCStorable
  Msgs <- MCMsgs
  Size <- MCSize
  PrefixesOf <- MCPrefixesOf
  Requests <- MCLiveRequests
  WbufLen = 1
SPECIFICATION FairSpec
PROPERTIES RequestHandled DepartureNoticed
CHECK_DEADLOCK FALSE
