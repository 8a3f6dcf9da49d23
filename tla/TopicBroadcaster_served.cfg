\* Two sessions of one camera are enough for the second to lose its stream.
CONSTANTS
  v1 = v1  v2 = v2
  front = front
  Viewers = {v1, v2}
  Topics = {front}
  TopicOf <- OneTopic
  NoViewer = NoViewer
  ChanCap = 1
  MaxFrames = 1
SPECIFICATION Spec
INVARIANTS
  ViewerServed
CHECK_DEADLOCK FALSE
