\* One stream, one session and three signals.
CONSTANTS
  c1 = c1  x1 = x1
  Streams = {c1}
  Sessions = {x1}
  MaxSignals = 3
SPECIFICATION FairSpec
INVARIANTS
  NodeClosedQuiet
  NoSilentStop
PROPERTIES
  SignalExits
  FailureStopsServers
CHECK_DEADLOCK FALSE
