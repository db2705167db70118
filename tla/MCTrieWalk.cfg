CONSTANTS
  a = a
  b = b
  dash = dash
  stop = stop
  Nul = Nul
  MaxMsg = 4
  Letters <- MCLetters
  Others <- MCOthers
  Stops <- MCStops
  KeySets <- MCKeySets
  Messages <- MCMessages
SPECIFICATION FairSpec
INVARIANTS TypeOK LooksUpPrefixes FindsEveryTopic
PROPERTY PublishEnds
CHECK_DEADLOCK FALSE
