\* One remote client and the daemon's, five messages, buffers of two: every
\* buffer can overflow, and the daemon's does.
CONSTANTS
  r1 = r1  d1 = d1
  Clients = {r1, d1}
  DaemonClients = {d1}
  SendCap = 2
  MaxMessages = 5
SPECIFICATION FairSpec
INVARIANTS
  SendNotClosed
  RegisteredIsRead
PROPERTIES
  ImplementsOrderedBroadcast
  ForwardReturns
  LostIsRemoved
  EvictedLeaves
CHECK_DEADLOCK FALSE
