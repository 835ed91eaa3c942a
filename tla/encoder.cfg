SPECIFICATION FairSpec
CONSTANTS
  PROCESS_COUNT = 2
  Timeouts = {}
  Services = {"g_event"}
  MaxTicks = 4
INVARIANTS
  NoLostWakeup
  NoSpuriousToggle
PROPERTY
  LastTickShown
