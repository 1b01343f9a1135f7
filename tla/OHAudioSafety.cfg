SPECIFICATION FairSpec
CONSTANTS
  MaxClosures = 2
INVARIANTS
  ClosedIsSilent
PROPERTIES
  NoStaleSamples
  LatchOutlivesPause
  OperationsReturn
