SPECIFICATION FairSpec
CONSTANTS
    Readers = {rr, main, io, callrcu}
    Callers = {main, io}
    CallRcu = callrcu
    Rr = rr
    Main = main
    Dummy = dummy
    NONE = NONE
    CallMin = 2
    MaxSleeps = 1
    MaxCpus = 2
    MaxEvents = 2
CHECK_DEADLOCK FALSE
INVARIANTS
  CallbacksInTurn
  KickIsSafe
PROPERTIES
  NothingWaitsForever
  EveryCpuRuns
