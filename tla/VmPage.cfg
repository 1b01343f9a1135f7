SPECIFICATION FairSpec
CONSTANTS
  VMs = {v1, v2}
  NoVm = NoVm
  MaxRuns = 2
  MaxClicks = 4
  MaxCrashes = 1
INVARIANTS
  StoppedIsTrue
PROPERTIES
  ShowsTruth
