CONSTANTS
  Commands <- MCCommands
  Char <- MCChar
  MaxRead = 15
  MaxSent = 2
SPECIFICATION FairSpec
INVARIANTS TypeOK ExecutesCommands
PROPERTIES Wedged HandlerReturns
CHECK_DEADLOCK FALSE
