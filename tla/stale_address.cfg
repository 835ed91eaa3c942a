SPECIFICATION Spec
CONSTANTS
  MaxPacket = 64
  DescSize <- RealSizes
  Requests <- StaleRequests
  UninitLens <- NoLens
  DebuggerAttached = FALSE
  MaxResets = 2
  MaxAborts = 0
  MaxLost = 0
  BackToBack = FALSE
INVARIANT
  AddressAgreement
CHECK_DEADLOCK FALSE
