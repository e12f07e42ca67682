CONSTANTS
  FrameLen = 4
  Allocated = 12
  Reserve = 3
  Limit = 13
  MaxFrames = 6
SPECIFICATION Spec
INVARIANTS
  FramesWhole
  NeverCleared
  AllPublished
  StreamInv
