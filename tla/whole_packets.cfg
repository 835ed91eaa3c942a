SPECIFICATION Spec
CONSTANTS
  MaxPacket = 8
  DescSize <- SmallSizes
  Requests <- FirstEight
  UninitLens <- NoLens
  DebuggerAttached = FALSE
  MaxResets = 1
  MaxAborts = 0
  MaxLost = 0
  BackToBack = FALSE
INVARIANT
  StatusOutTaken
CHECK_DEADLOCK FALSE
