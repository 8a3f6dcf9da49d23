\* A service that fails.
CONSTANTS
  c1 = c1  x1 = x1
  Streams = {c1}
  Sessions = {x1}
  MaxSignals = 2
SPECIFICATION FairSpec
PROPERTIES
  FailureEndsAgent
CHECK_DEADLOCK FALSE
