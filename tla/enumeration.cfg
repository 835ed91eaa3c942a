SPECIFICATION FairSpec
CONSTANTS
  MaxPacket = 64
  DescSize <- RealSizes
  Requests <- EnumerationRequests
  UninitLens <- NoLens
  DebuggerAttached = TRUE
  MaxResets = 1
  MaxAborts = 0
  MaxLost = 0
  BackToBack = FALSE
INVARIANTS
  AddressAgreement
  RegistersMatchStage
  OnlyIgnoredFails
  AddressInv
  ServedInv
PROPERTIES
  ReliableTransferSpec
  TransferEnds
