SPECIFICATION FairSpec
CONSTANTS
  MaxPacket = 8
  DescSize <- SmallSizes
  Requests <- ResetRequests
  UninitLens <- Lens
  DebuggerAttached = TRUE
  MaxResets = 2
  MaxAborts = 1
  MaxLost = 1
  BackToBack = TRUE
INVARIANTS
  NoOverread
  TxInv
PROPERTIES
  TxBufferStable
  ResetRecovers
  ResetRestores
  OnlyStatusStageLeft
CHECK_DEADLOCK FALSE
