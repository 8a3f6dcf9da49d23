\* One session and two connections.
CONSTANTS
  x1 = x1
  Sessions = {x1}
  MaxConns = 2
SPECIFICATION FairSpec
INVARIANTS
  EncoderClosedAlone
  NoSampleBeforeIce
  OverIsReleased
  OneConnection
  DeafForCause
PROPERTIES
  PeerGoneEnds
  ShutdownEnds
  PipelineUnwinds
  Reconnects
CHECK_DEADLOCK FALSE
