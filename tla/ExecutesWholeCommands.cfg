CONSTANTS
  Commands <- MCCommands
  Char <- MCChar
  MaxRead = 15
  MaxSent = 2
SPECIFICATION Spec
INVARIANT ExecutesWholeCommands
CHECK_DEADLOCK FALSE
