SPECIFICATION FairSpec
CHECK_DEADLOCK FALSE
CONSTANTS
  MaxRuns = 2
  MaxCallbacks = 3
  PipeSize = 1
INVARIANTS
  BridgeOwns
PROPERTIES
  JoinsReturn
  BridgeConnects
