SPECIFICATION SessionSpec
CHECK_DEADLOCK FALSE
CONSTANTS
  Hardware <- MCHardware
  Images <- MCImages
  Cores <- MCCores
  MaxStarts = 2
  MaxFaults = 1
  Timers = {t1, t2, t3}
  IoTimers = {t3}
  MaxTime = 1
  MaxRequests = 2
INVARIANTS
  BootIndexUnique
