\* A session whose context is cancelled before it calls Close.
CONSTANTS
  InCap = 1
  MaxFrames = 2
  Exits <- QuietExits
SPECIFICATION FairSpec
PROPERTIES
  CloseReturns
CHECK_DEADLOCK FALSE
