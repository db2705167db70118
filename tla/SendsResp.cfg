CONSTANTS
  m1 = m1
  m2 = m2
  Msgs <- MCMsgs
  Size <- MCSize
  WbufLen = 5
  SockLen = 6
  MaxAccepted = 7
  MaxOut = 9
SPECIFICATION HSpec
INVARIANT SendsResp
CHECK_DEADLOCK FALSE
