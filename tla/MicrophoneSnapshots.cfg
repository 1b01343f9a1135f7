SPECIFICATION Spec
CONSTANTS
  VMs = {v1}
  NoVm = NoVm
  GenWidth = 3
  Windows = {entry, w1}
  Entry = entry
  NoWindow = NoWindow
  Signals = {"visibility", "showing"}
  MaxRuns = 1
INVARIANTS
  ConsentHasWindow
PROPERTIES
  ResumesAtTarget
