SPECIFICATION Spec
CONSTANTS
  PROCESS_COUNT = 4
  Timeouts = {1}
  Services = {"Producers", "Consumers"}
  Size = 2
  SMod = 3
  Items = {"a", "b"}
  Programs = {{"push", "push_front", "pop_back", "flush"}, {"write", "read", "pop"}}
  Batches = {1, 2}
  ChannelTimeouts = {0, 1}
INVARIANTS
  ChannelTypeOK
  NoIdleWaiter
  NoStandstill
PROPERTY
  QueueSpec
