SPECIFICATION FairSpec
CONSTANTS
  VMs = {v1}
  NoVm = NoVm
  GenWidth = 4
  Callers = {ui}
  MaxRuns = 2
  Services = {"start", "stop"}
PROPERTIES
  StopCompletes
