\* Four frames through a buffer of two, every kind of exit.
CONSTANTS
  InCap = 2
  MaxFrames = 4
  Exits <- AllExits
SPECIFICATION FairSpec
INVARIANTS
  NoSendOnClosed
  FramesInOrder
  CloseLeavesNothing
  FailureIsReported
PROPERTIES
  FeederEnds
  CloseReturnsOnceInputClosed
CHECK_DEADLOCK FALSE
