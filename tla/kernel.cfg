SPECIFICATION KernelFairSpec
CONSTANTS
  PROCESS_COUNT = 4
  Timeouts <- SomeTimeouts
INVARIANTS
  KernelTypeOK
  SleepersStop
  KernelInv
PROPERTIES
  SleepEnds
  HighestRuns
