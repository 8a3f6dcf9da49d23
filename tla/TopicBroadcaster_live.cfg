\* One session and enough frames to fill every channel; no symmetry, for liveness.
CONSTANTS
  v1 = v1  v2 = v2
  front = front
  Viewers = {v1}
  Topics = {front}
  TopicOf <- OneTopic
  NoViewer = NoViewer
  ChanCap = 1
  MaxFrames = 4
SPECIFICATION FairSpec
PROPERTIES
  SessionsFinish
  StreamsDrain
CHECK_DEADLOCK FALSE
