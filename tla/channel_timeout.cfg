SPECIFICATION Spec
CONSTANTS
  PROCESS_COUNT = 4
  Timeouts = {1}
  Services = {"Producers", "Consumers"}
  Size = 2
  SMod = 4
  Items = {"a"}
  Programs = {{"push", "pop"}}
  Batches = {}
  ChannelTimeouts = {1}
INVARIANT
  TimeoutRuns
