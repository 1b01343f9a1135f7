SPECIFICATION Spec
SYMMETRY Symmetry
CONSTANTS
  VMs = {v1, v2}
  NoVm = NoVm
  GenWidth = 4
  Callers = {ui}
  MaxRuns = 2
  Services = {"start", "stop", "status", "disk", "microphone"}
INVARIANTS
  SingleRunner
  HandleKept
  OwnerActs
  StopReachesCore
  CaptureBelongsToRun
  DiskToolAlone
PROPERTIES
  ConsentIsForThisRun
  AnswersAreTrue
  ImplementsSingleRun
