\* Two sessions, one camera, two frames, channels of two slots.
CONSTANTS
  v1 = v1  v2 = v2
  front = front
  Viewers = {v1, v2}
  Topics = {front}
  TopicOf <- OneTopic
  NoViewer = NoViewer
  ChanCap = 2
  MaxFrames = 2
SYMMETRY Symmetry
SPECIFICATION Spec
INVARIANTS
  NoSendOnClosed
  RegistryConsistent
  NoOrphanStream
PROPERTIES
  ImplementsLossyFanOut
CHECK_DEADLOCK FALSE
