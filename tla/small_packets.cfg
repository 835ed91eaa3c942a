SPECIFICATION Spec
CONSTANTS
  MaxPacket = 8
  DescSize <- SmallSizes
  Requests <- SmallRequests
  UninitLens <- NoLens
  DebuggerAttached = FALSE
  MaxResets = 2
  MaxAborts = 0
  MaxLost = 2
  BackToBack = FALSE
INVARIANTS
  TypeOK
  ReadInv
  CalmInv
  PieceInv
PROPERTIES
  TransferSpec
  NextPiece
  NoEventLost
CHECK_DEADLOCK FALSE
