CONSTANTS
  m1 = m1
  m2 = m2
  Msgs <- MCMsgs
  Size <- MCSize
  WbufLen = 5
  SockLen = 6
  MaxAccepted = 7
  MaxOut = 9
SPECIFICATION HFairSpec
INVARIANTS TypeOK WbufInBounds WriteInterest ExactUntilCut NothingLost WholeWhileRoom
PROPERTY EventuallyFlushed
CHECK_DEADLOCK FALSE
