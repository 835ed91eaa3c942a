SPECIFICATION FairSpec
CONSTANTS
  PROCESS_COUNT = 4
  Timeouts = {}
  Services = {"mutex", "recursive", "flag"}
  Mutexes = {"mutex"}
  RecursiveMutexes = {"recursive"}
  Flags = {"flag"}
  Programs = {{"mutex"}, {"recursive"}, {"flag"}}
  LockTimeouts = {1}
  MaxNest = 2
INVARIANTS
  LocksTypeOK
  MutualExclusion
  NoLostUnlock
  NoSleepOnEvent
PROPERTY
  HandOver
