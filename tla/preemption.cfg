SPECIFICATION KernelSpec
CONSTANTS
  PROCESS_COUNT = 3
  Timeouts <- SomeTimeouts
INVARIANT
  Preemptive
