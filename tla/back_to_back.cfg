SPECIFICATION Spec
CONSTANTS
  MaxPacket = 64
  DescSize <- RealSizes
  Requests <- StaleRequests
  UninitLens <- NoLens
  DebuggerAttached = FALSE
  MaxResets = 1
  MaxAborts = 0
  MaxLost = 0
  BackToBack = TRUE
PROPERTY
  StatusSwitched
CHECK_DEADLOCK FALSE
