SPECIFICATION SplitSpec
CONSTANTS
  MaxLen = 20
  MinBuffer = 4
  MinInside = 3
  NewlineWindow = 8
  SpaceWindow = 5
  Messages <- MCMessages
  WordLens = {11}
  MaxLines = 2
  MaxRest = 100
PROPERTY SplitReturns
CHECK_DEADLOCK FALSE
