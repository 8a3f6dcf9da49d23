\* One session whose encoder ends.
CONSTANTS
  x1 = x1
  Sessions = {x1}
  MaxConns = 1
SPECIFICATION FairSpec
PROPERTIES
  DeadStreamEnds
CHECK_DEADLOCK FALSE
