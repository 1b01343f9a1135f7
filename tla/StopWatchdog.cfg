SPECIFICATION FairSpec
CHECK_DEADLOCK FALSE
CONSTANTS
  InitialDelay = 5
  Grace = 7
  RetryGap = 2
  Timeout = 2
  Pause = 1
  MaxFaults = 4
  MaxWire = 3
INVARIANTS
  VerdictIsTrue
PROPERTIES
  StopEscalates
